---- MODULE Spec2Model ----
(***************************************************************************)
(* A model of the entity runtime and the discovery engine of dust-dds:     *)
(* the DomainParticipantActor (its user-defined entity lists, id counters, *)
(* ignore sets, SPDP/SEDP processing), the DataReaderAsync enable, set_qos *)
(* and wait_for_historical_data protocols, the Topic and Publisher         *)
(* facades, the best-effort stateless reader and SequenceNumberSet.        *)
(***************************************************************************)
EXTENDS Integers, Sequences, FiniteSets, TLC

(***************************************************************************)
(* Bounds of the model.                                                    *)
(***************************************************************************)
\* publishers (subscribers) created per behaviour under Spec and SpecSedp
MaxCreates == 2
\* data writers one publisher may hold
MaxWriters == 1
\* publishers alive at once under SpecIds
MaxLivePublishers == 2
\* clock ticks a remote participant's lease lasts
LeaseTicks == 2
\* DataReaderAsync calls started per behaviour
MaxCalls == 3
\* user-defined subscribers (publishers) created per behaviour under SpecSedp
MaxMatchTargets == 1
\* the longest max_wait given to wait_for_historical_data, in clock ticks
MaxWait == 2
\* clock ticks the runtime's clock advances per behaviour
MaxNow == 3
\* data writers created through Publisher handles per behaviour
MaxDataWriters == 3
\* changes the stateless reader's cache holds in a run, and sequence numbers on the wire
MaxChanges == 2
\* sequence numbers collected after the base, and next() calls that return None
MaxNumbers == 2
MaxNext == 2
\* DATA submessages in one metatraffic message
MaxSamples == 2
\* samples the data reader holds at a time
MaxReaderSamples == 2

\* the enable() calls made on one RtpsProtocol
MaxEnables == 2

(***************************************************************************)
(* Program constants.                                                      *)
(***************************************************************************)
\* the id counters are u8
U8Modulus == 256

LocalPrefix == "local"
RemotePrefixes == {"p1", "p2"}

(***************************************************************************)
(* Identifiers: EntityId, Guid and InstanceHandle.                         *)
(***************************************************************************)
EntityId(entity_key, entity_kind) ==
    [entity_key |-> entity_key, entity_kind |-> entity_kind]

Guid(prefix, entity_id) == [prefix |-> prefix, entity_id |-> entity_id]

\* InstanceHandle::new(guid.into()): the 16 bytes prefix ++ entity key ++ kind
InstanceHandle(guid) ==
    <<guid.prefix>> \o guid.entity_id.entity_key \o <<guid.entity_id.entity_kind>>

ENTITYID_PARTICIPANT == EntityId(<<0, 0, 1>>, "BUILT_IN_PARTICIPANT")
ENTITYID_SPDP_BUILTIN_PARTICIPANT_WRITER ==
    EntityId(<<0, 1, 0>>, "BUILT_IN_WRITER_WITH_KEY")
ENTITYID_SPDP_BUILTIN_PARTICIPANT_READER ==
    EntityId(<<0, 1, 0>>, "BUILT_IN_READER_WITH_KEY")
ENTITYID_SEDP_BUILTIN_TOPICS_ANNOUNCER ==
    EntityId(<<0, 0, 2>>, "BUILT_IN_WRITER_WITH_KEY")
ENTITYID_SEDP_BUILTIN_TOPICS_DETECTOR ==
    EntityId(<<0, 0, 2>>, "BUILT_IN_READER_WITH_KEY")
ENTITYID_SEDP_BUILTIN_PUBLICATIONS_ANNOUNCER ==
    EntityId(<<0, 0, 3>>, "BUILT_IN_WRITER_WITH_KEY")
ENTITYID_SEDP_BUILTIN_PUBLICATIONS_DETECTOR ==
    EntityId(<<0, 0, 3>>, "BUILT_IN_READER_WITH_KEY")
ENTITYID_SEDP_BUILTIN_SUBSCRIPTIONS_ANNOUNCER ==
    EntityId(<<0, 0, 4>>, "BUILT_IN_WRITER_WITH_KEY")
ENTITYID_SEDP_BUILTIN_SUBSCRIPTIONS_DETECTOR ==
    EntityId(<<0, 0, 4>>, "BUILT_IN_READER_WITH_KEY")

\* the handles of the entities DomainParticipantActor::new builds
BuiltinHandles ==
    {InstanceHandle(Guid(LocalPrefix, e)) : e \in
        { ENTITYID_PARTICIPANT,
          EntityId(<<0, 0, 0>>, "BUILT_IN_TOPIC"),
          EntityId(<<0, 0, 1>>, "BUILT_IN_TOPIC"),
          EntityId(<<0, 0, 2>>, "BUILT_IN_TOPIC"),
          EntityId(<<0, 0, 3>>, "BUILT_IN_TOPIC"),
          ENTITYID_SPDP_BUILTIN_PARTICIPANT_READER,
          ENTITYID_SEDP_BUILTIN_TOPICS_DETECTOR,
          ENTITYID_SEDP_BUILTIN_PUBLICATIONS_DETECTOR,
          ENTITYID_SEDP_BUILTIN_SUBSCRIPTIONS_DETECTOR,
          EntityId(<<0, 0, 0>>, "BUILT_IN_READER_GROUP"),
          ENTITYID_SPDP_BUILTIN_PARTICIPANT_WRITER,
          ENTITYID_SEDP_BUILTIN_TOPICS_ANNOUNCER,
          ENTITYID_SEDP_BUILTIN_PUBLICATIONS_ANNOUNCER,
          ENTITYID_SEDP_BUILTIN_SUBSCRIPTIONS_ANNOUNCER,
          EntityId(<<0, 0, 0>>, "BUILT_IN_WRITER_GROUP") }}

PublisherHandle(counter) ==
    InstanceHandle(Guid(LocalPrefix,
                        EntityId(<<counter, 0, 0>>, "USER_DEFINED_WRITER_GROUP")))

SubscriberHandle(counter) ==
    InstanceHandle(Guid(LocalPrefix,
                        EntityId(<<counter, 0, 0>>, "USER_DEFINED_READER_GROUP")))

TopicHandle(counter) ==
    InstanceHandle(Guid(LocalPrefix,
                        EntityId(<<counter, 0, 0>>, "USER_DEFINED_TOPIC")))

\* the handle of the remote participant with this GUID prefix
ParticipantHandle(prefix) == InstanceHandle(Guid(prefix, ENTITYID_PARTICIPANT))

\* Option
Some(value) == [kind |-> "Some", value |-> value]
None == [kind |-> "None"]

\* the builtin subscriber and the builtin publisher of the participant
builtin_subscriber ==
    InstanceHandle(Guid(LocalPrefix, EntityId(<<0, 0, 0>>, "BUILT_IN_READER_GROUP")))

builtin_publisher ==
    InstanceHandle(Guid(LocalPrefix, EntityId(<<0, 0, 0>>, "BUILT_IN_WRITER_GROUP")))

NoHandle == <<>>

(***************************************************************************)
(* Maps (HashMap) as functions.                                            *)
(***************************************************************************)
EmptyMap == <<>>

MapInsert(map, key, value) ==
    [k \in DOMAIN map \cup {key} |-> IF k = key THEN value ELSE map[k]]

MapRemove(map, key) == [k \in DOMAIN map \ {key} |-> map[k]]

(***************************************************************************)
(* QoS values.                                                             *)
(***************************************************************************)
Default == [kind |-> "Default"]
Specific(q) == [kind |-> "Specific", q |-> q]

NoQos == [kind |-> "None"]

PublisherQos_default == [partition |-> "*"]
SubscriberQos_default == [partition |-> "*"]
PublisherQosValues == {PublisherQos_default, [partition |-> "A"]}
SubscriberQosValues == {SubscriberQos_default, [partition |-> "A"]}

QosKinds(values) == {Default} \cup {Specific(q) : q \in values}

\* DataReaderQos and TopicQos: the HISTORY depth (KEEP_LAST(depth)), the
\* DURABILITY kind and the USER_DATA/TOPIC_DATA value
Qos_default == [history_depth |-> 1, durability |-> "Volatile", user_data |-> 0]

\* the QoS self-consistency check: KEEP_LAST with depth 0 is inconsistent
is_consistent(q) == q.history_depth > 0

\* the policies that cannot change once the entity is enabled
check_immutability(q, current_qos) ==
    /\ q.durability = current_qos.durability
    /\ q.history_depth = current_qos.history_depth

\* a change of a mutable policy, a change of an immutable policy, and a QoS
\* that is not consistent
QosValues ==
    {[Qos_default EXCEPT !.user_data = 1],
     [Qos_default EXCEPT !.durability = "TransientLocal"],
     [Qos_default EXCEPT !.history_depth = 0]}

\* the subscriber's default data reader QoS
default_datareader_qos == Qos_default

(***************************************************************************)
(* State.                                                                  *)
(***************************************************************************)
VARIABLES
    \* DomainParticipantActor
    participant_alive,               \* FALSE once a handler has panicked
    enabled,
    user_defined_publisher_list,     \* handle -> [qos, data_writer_list]
    user_defined_publisher_counter,
    default_publisher_qos,
    user_defined_subscriber_list,    \* handle -> [qos, data_reader_list]
    user_defined_subscriber_counter,
    default_subscriber_qos,
    user_defined_topic_list,         \* handle -> [name, type_name, qos]
    user_defined_topic_counter,
    default_topic_qos,
    ignored_participants,
    ignored_publications,
    ignored_subcriptions,
    discovered_participant_list,     \* handle -> SpdpDiscoveredParticipantData
    discovered_topic_list,           \* handle -> TopicBuiltinTopicData
    \* the builtin SEDP endpoints owned by builtin_publisher / builtin_subscriber
    builtin_matched,                 \* endpoint -> proxies given to matched_*_add
    sedp_cache,                      \* detector -> (instance handle -> sample)
    \* what the last handler sent to user-defined publishers and subscribers
    sent,
    \* the last request served: operation, arguments and reply
    last_call,
    \* every handle a create_user_defined_* call has returned, with how often
    issued,
    \* clock ticks since the last accepted SPDP sample of a discovered participant
    elapsed,
    \* DataReaderActor and the tasks calling DataReaderAsync
    reader_enabled,
    reader_qos,
    task,
    announce_count,
    last_announced,
    calls,
    \* Topic facade
    rtps_topic_valid,
    topic_qos,
    \* the runtime's clock and the task calling wait_for_historical_data
    now,
    wait,
    historical_data_received,
    reader_alive,
    \* Publisher handles: the PublisherImpl and DataWriterImpl objects they point to
    publisher_impl,                  \* publisher -> [default_data_writer_qos, data_writer_list]
    data_writer_impl,                \* writer -> [parent, qos]
    \* the history cache of the best-effort stateless reader
    reader_cache,
    \* SequenceNumberSet: the numbers collected, the set and its iterator
    sequence_numbers,
    sequence_number_set,
    iterator,
    yielded,
    \* the samples of the DataReaderActor, oldest first
    reader_samples,
    \* the requests the last message handler put in the mailboxes of the entities
    delivered,
    \* the participant's listener and status mask
    listener,
    status_kind,
    \* the last SequenceNumber conversion made
    converted,
    \* the request the participant actor's handler is awaiting the reply of
    awaiting,
    \* RtpsProtocol: the holder of the participant's mutex, the position of
    \* every thread that enable has spawned, the positions of the threads that
    \* call create_*, and the reset_discovery calls since the last
    \* send_metatraffic
    protocol_participant,
    thread_handle,
    caller,
    resets_since_send,
    \* the holders of the three mutexes of one PublisherImpl and the threads
    \* calling create_datawriter and delete_datawriter on it
    publisher_mutex,
    publisher_thread

entityVars ==
    <<user_defined_publisher_list, user_defined_publisher_counter, default_publisher_qos,
      user_defined_subscriber_list, user_defined_subscriber_counter, default_subscriber_qos,
      user_defined_topic_list, user_defined_topic_counter, default_topic_qos, issued>>

publisherVars ==
    <<user_defined_publisher_list, user_defined_publisher_counter, default_publisher_qos>>

subscriberVars ==
    <<user_defined_subscriber_list, user_defined_subscriber_counter, default_subscriber_qos>>

topicVars == <<user_defined_topic_list, user_defined_topic_counter, default_topic_qos>>

ignoreVars == <<ignored_participants, ignored_publications, ignored_subcriptions>>

discoveryVars ==
    <<discovered_participant_list, discovered_topic_list, builtin_matched, sedp_cache, elapsed>>

readerVars == <<reader_enabled, reader_qos, task, announce_count, last_announced, calls>>

facadeVars == <<rtps_topic_valid, topic_qos>>

waitVars == <<now, wait, historical_data_received, reader_alive>>

publisherImplVars == <<publisher_impl, data_writer_impl>>

sequenceNumberSetVars == <<sequence_numbers, sequence_number_set, iterator, yielded>>

rtpsVars == <<reader_cache, sequenceNumberSetVars>>

listenerVars == <<listener, status_kind>>

protocolVars == <<protocol_participant, thread_handle, caller, resets_since_send>>

lockVars == <<publisher_mutex, publisher_thread>>

concurrencyVars == <<awaiting, protocolVars, lockVars>>

extensionVars ==
    <<reader_samples, delivered, listenerVars, converted, concurrencyVars>>

vars ==
    <<participant_alive, enabled, entityVars, ignoreVars, discoveryVars, sent, last_call,
      readerVars, facadeVars, waitVars, publisherImplVars, rtpsVars, extensionVars>>

NoMessage == [kind |-> "None"]

Call(op, handle, qos, msg, ret) ==
    [op |-> op, handle |-> handle, qos |-> qos, msg |-> msg, ret |-> ret]

(***************************************************************************)
(* DomainParticipantActor: user-defined publishers.                        *)
(***************************************************************************)
\* user_defined_publisher_counter += 1 on a u8, as a release build computes it
create_unique_publisher_id(counter) ==
    [id |-> counter, counter |-> (counter + 1) % U8Modulus]

create_unique_subscriber_id(counter) ==
    [id |-> counter, counter |-> (counter + 1) % U8Modulus]

create_unique_topic_id(counter) ==
    [id |-> counter, counter |-> (counter + 1) % U8Modulus]

Issue(handle) ==
    MapInsert(issued, handle,
              IF handle \in DOMAIN issued THEN 2 ELSE 1)

create_user_defined_publisher(qos) ==
    /\ participant_alive
    /\ LET publisher_qos == IF qos.kind = "Default" THEN default_publisher_qos ELSE qos.q
           unique == create_unique_publisher_id(user_defined_publisher_counter)
           handle == PublisherHandle(unique.id)
       IN /\ user_defined_publisher_counter' = unique.counter
          /\ user_defined_publisher_list' =
                 MapInsert(user_defined_publisher_list, handle,
                           [qos |-> publisher_qos, data_writer_list |-> {}])
          /\ issued' = Issue(handle)
          /\ last_call' = Call("create_user_defined_publisher", handle, qos, NoMessage, "Ok")
    /\ sent' = {}
    /\ UNCHANGED <<participant_alive, enabled, default_publisher_qos, subscriberVars,
                   topicVars, ignoreVars, discoveryVars, readerVars, facadeVars,
                   waitVars, publisherImplVars, rtpsVars, extensionVars>>

\* the same call in a build with overflow checks: the increment of a counter
\* that holds 255 panics and the actor's task ends
create_user_defined_publisher_overflow(qos) ==
    /\ participant_alive
    /\ user_defined_publisher_counter + 1 >= U8Modulus
    /\ participant_alive' = FALSE
    /\ last_call' = Call("create_user_defined_publisher", NoHandle, qos, NoMessage, "panic")
    /\ sent' = {}
    /\ UNCHANGED <<enabled, entityVars, ignoreVars, discoveryVars, readerVars, facadeVars,
                   waitVars, publisherImplVars, rtpsVars, extensionVars>>

create_user_defined_subscriber(qos) ==
    /\ participant_alive
    /\ LET subscriber_qos == IF qos.kind = "Default" THEN default_subscriber_qos ELSE qos.q
           unique == create_unique_subscriber_id(user_defined_subscriber_counter)
           handle == SubscriberHandle(unique.id)
       IN /\ user_defined_subscriber_counter' = unique.counter
          /\ user_defined_subscriber_list' =
                 MapInsert(user_defined_subscriber_list, handle,
                           [qos |-> subscriber_qos, data_reader_list |-> {}])
          /\ issued' = Issue(handle)
          /\ last_call' = Call("create_user_defined_subscriber", handle, qos, NoMessage, "Ok")
    /\ sent' = {}
    /\ UNCHANGED <<participant_alive, enabled, default_subscriber_qos, publisherVars,
                   topicVars, ignoreVars, discoveryVars, readerVars, facadeVars,
                   waitVars, publisherImplVars, rtpsVars, extensionVars>>

\* delete_user_defined_publisher without the test of the data writer list
delete_user_defined_publisher_unchecked(handle) ==
    /\ participant_alive
    /\ IF handle \in DOMAIN user_defined_publisher_list
       THEN /\ user_defined_publisher_list' =
                   MapRemove(user_defined_publisher_list, handle)
            /\ last_call' = Call("delete_user_defined_publisher", handle, NoQos,
                                 NoMessage, "Ok")
       ELSE /\ last_call' = Call("delete_user_defined_publisher", handle, NoQos,
                                 NoMessage, "PreconditionNotMet")
            /\ UNCHANGED user_defined_publisher_list
    /\ sent' = {}
    /\ UNCHANGED <<participant_alive, enabled, user_defined_publisher_counter,
                   default_publisher_qos, subscriberVars, topicVars, issued, ignoreVars,
                   discoveryVars, readerVars, facadeVars,
                   waitVars, publisherImplVars, rtpsVars, extensionVars>>

delete_user_defined_publisher(handle) ==
    /\ participant_alive
    /\ IF handle \in DOMAIN user_defined_publisher_list
       THEN IF user_defined_publisher_list[handle].data_writer_list # {}
            THEN /\ last_call' = Call("delete_user_defined_publisher", handle, NoQos,
                                      NoMessage, "PreconditionNotMet")
                 /\ UNCHANGED user_defined_publisher_list
            ELSE /\ user_defined_publisher_list' =
                        MapRemove(user_defined_publisher_list, handle)
                 /\ last_call' = Call("delete_user_defined_publisher", handle, NoQos,
                                      NoMessage, "Ok")
       ELSE /\ last_call' = Call("delete_user_defined_publisher", handle, NoQos,
                                 NoMessage, "PreconditionNotMet")
            /\ UNCHANGED user_defined_publisher_list
    /\ sent' = {}
    /\ UNCHANGED <<participant_alive, enabled, user_defined_publisher_counter,
                   default_publisher_qos, subscriberVars, topicVars, issued, ignoreVars,
                   discoveryVars, readerVars, facadeVars,
                   waitVars, publisherImplVars, rtpsVars, extensionVars>>

\* PublisherActor: a data writer on topic_name joins the publisher's list
datawriter_add(handle, writer, topic_name) ==
    /\ participant_alive
    /\ handle \in DOMAIN user_defined_publisher_list
    /\ \A w \in user_defined_publisher_list[handle].data_writer_list : w.writer # writer
    /\ user_defined_publisher_list' =
           [user_defined_publisher_list EXCEPT ![handle].data_writer_list =
                @ \cup {[writer |-> writer, topic_name |-> topic_name]}]
    /\ last_call' = Call("datawriter_add", handle, NoQos, NoMessage, "Ok")
    /\ sent' = {}
    /\ UNCHANGED <<participant_alive, enabled, user_defined_publisher_counter,
                   default_publisher_qos, subscriberVars, topicVars, issued, ignoreVars,
                   discoveryVars, readerVars, facadeVars,
                   waitVars, publisherImplVars, rtpsVars, extensionVars>>

\* PublisherActor: a data writer leaves the publisher's list
datawriter_delete(handle, writer) ==
    /\ participant_alive
    /\ handle \in DOMAIN user_defined_publisher_list
    /\ \E w \in user_defined_publisher_list[handle].data_writer_list : w.writer = writer
    /\ user_defined_publisher_list' =
           [user_defined_publisher_list EXCEPT ![handle].data_writer_list =
                {w \in @ : w.writer # writer}]
    /\ last_call' = Call("datawriter_delete", handle, NoQos, NoMessage, "Ok")
    /\ sent' = {}
    /\ UNCHANGED <<participant_alive, enabled, user_defined_publisher_counter,
                   default_publisher_qos, subscriberVars, topicVars, issued, ignoreVars,
                   discoveryVars, readerVars, facadeVars,
                   waitVars, publisherImplVars, rtpsVars, extensionVars>>

\* SubscriberActor: a data reader on topic_name joins the subscriber's list
datareader_add(handle, reader, topic_name) ==
    /\ participant_alive
    /\ handle \in DOMAIN user_defined_subscriber_list
    /\ \A r \in user_defined_subscriber_list[handle].data_reader_list : r.reader # reader
    /\ user_defined_subscriber_list' =
           [user_defined_subscriber_list EXCEPT ![handle].data_reader_list =
                @ \cup {[reader |-> reader, topic_name |-> topic_name]}]
    /\ last_call' = Call("datareader_add", handle, NoQos, NoMessage, "Ok")
    /\ sent' = {}
    /\ UNCHANGED <<participant_alive, enabled, user_defined_subscriber_counter,
                   default_subscriber_qos, publisherVars, topicVars, issued,
                   ignoreVars, discoveryVars, readerVars, facadeVars,
                   waitVars, publisherImplVars, rtpsVars, extensionVars>>

(***************************************************************************)
(* DomainParticipantActor::delete_contained_entities.  Every publisher is  *)
(* asked to delete its data writers and answers with their handles, and    *)
(* each handle is disposed on the SEDP publications announcer; the first   *)
(* dispose that fails ends the handler with its error.  The publishers are *)
(* visited in the order of the HashMap, which is any order.  Subscribers   *)
(* and their readers follow in the same way.                               *)
(***************************************************************************)
\* the instance handle of a data writer (data reader) of a user-defined publisher
DataWriterHandle(publisher, writer) ==
    InstanceHandle(Guid(LocalPrefix,
                        EntityId(<<publisher[2], writer, 0>>, "USER_DEFINED_WRITER_WITH_KEY")))

DataReaderHandle(subscriber, reader) ==
    InstanceHandle(Guid(LocalPrefix,
                        EntityId(<<subscriber[2], reader, 0>>, "USER_DEFINED_READER_WITH_KEY")))

\* the handles PublisherActor::delete_contained_entities answers with
DataWriterHandles(publisher) ==
    {DataWriterHandle(publisher, w.writer) :
        w \in user_defined_publisher_list[publisher].data_writer_list}

DataReaderHandles(subscriber) ==
    {DataReaderHandle(subscriber, r.reader) :
        r \in user_defined_subscriber_list[subscriber].data_reader_list}

\* the first dispose_w_timestamp that fails, if any: the entity at which it fails,
\* the entities visited before it and the handles of `at` disposed before it
NoFailure == [kind |-> "None"]

DisposeFailures ==
    {NoFailure}
    \cup UNION {{[kind |-> "writer", at |-> publisher, visited |-> visited,
                  disposed |-> disposed] :
                     visited \in SUBSET (DOMAIN user_defined_publisher_list \ {publisher}),
                     disposed \in SUBSET DataWriterHandles(publisher) \
                                  {DataWriterHandles(publisher)}} :
                publisher \in DOMAIN user_defined_publisher_list}
    \cup UNION {{[kind |-> "reader", at |-> subscriber, visited |-> visited,
                  disposed |-> disposed] :
                     visited \in SUBSET (DOMAIN user_defined_subscriber_list \ {subscriber}),
                     disposed \in SUBSET DataReaderHandles(subscriber) \
                                  {DataReaderHandles(subscriber)}} :
                subscriber \in DOMAIN user_defined_subscriber_list}

\* the requests of delete_contained_entities to the `visited` entities: each is
\* asked to delete its contents, each handle in `disposed` is disposed on `announcer`
DeleteRequests(visited, disposed, announcer) ==
    {[kind |-> "delete_contained_entities", to |-> entity] : entity \in visited}
    \cup {[kind |-> "dispose_w_timestamp",
           to |-> InstanceHandle(Guid(LocalPrefix, announcer)), handle |-> handle] :
             handle \in disposed}

\* delete_contained_entities that clears the subscribers without asking them
delete_contained_entities_subscribers_not_asked(failure) ==
    /\ participant_alive
    /\ failure = NoFailure
    /\ user_defined_publisher_list' = EmptyMap
    /\ user_defined_subscriber_list' = EmptyMap
    /\ user_defined_topic_list' = EmptyMap
    /\ sent' = DeleteRequests(DOMAIN user_defined_publisher_list,
                              UNION {DataWriterHandles(publisher) :
                                         publisher \in DOMAIN user_defined_publisher_list},
                              ENTITYID_SEDP_BUILTIN_PUBLICATIONS_ANNOUNCER)
    /\ last_call' = Call("delete_contained_entities", NoHandle, NoQos, NoMessage, "Ok")
    /\ UNCHANGED <<participant_alive, enabled, user_defined_publisher_counter,
                   default_publisher_qos, user_defined_subscriber_counter,
                   default_subscriber_qos, user_defined_topic_counter, default_topic_qos,
                   issued,
                   ignoreVars, discoveryVars, readerVars, facadeVars,
                   waitVars, publisherImplVars, rtpsVars, extensionVars>>

delete_contained_entities(failure) ==
    /\ participant_alive
    /\ LET publishers == DOMAIN user_defined_publisher_list
           subscribers == DOMAIN user_defined_subscriber_list
           visited_publishers ==
               IF failure.kind = "writer" THEN failure.visited \cup {failure.at}
               ELSE publishers
           disposed_writers ==
               IF failure.kind = "writer"
               THEN UNION {DataWriterHandles(publisher) : publisher \in failure.visited}
                    \cup failure.disposed
               ELSE UNION {DataWriterHandles(publisher) : publisher \in publishers}
           visited_subscribers ==
               IF failure.kind = "writer" THEN {}
               ELSE IF failure.kind = "reader" THEN failure.visited \cup {failure.at}
               ELSE subscribers
           disposed_readers ==
               IF failure.kind = "writer" THEN {}
               ELSE IF failure.kind = "reader"
               THEN UNION {DataReaderHandles(subscriber) : subscriber \in failure.visited}
                    \cup failure.disposed
               ELSE UNION {DataReaderHandles(subscriber) : subscriber \in subscribers}
       IN /\ user_defined_publisher_list' =
                 IF failure.kind = "writer"
                 THEN [publisher \in publishers |->
                          IF publisher \in visited_publishers
                          THEN [user_defined_publisher_list[publisher]
                                    EXCEPT !.data_writer_list = {}]
                          ELSE user_defined_publisher_list[publisher]]
                 ELSE EmptyMap
          /\ user_defined_subscriber_list' =
                 IF failure.kind = "None" THEN EmptyMap
                 ELSE [subscriber \in subscribers |->
                          IF subscriber \in visited_subscribers
                          THEN [user_defined_subscriber_list[subscriber]
                                    EXCEPT !.data_reader_list = {}]
                          ELSE user_defined_subscriber_list[subscriber]]
          /\ user_defined_topic_list' =
                 IF failure.kind = "None" THEN EmptyMap ELSE user_defined_topic_list
          /\ sent' = DeleteRequests(visited_publishers, disposed_writers,
                                    ENTITYID_SEDP_BUILTIN_PUBLICATIONS_ANNOUNCER)
                     \cup DeleteRequests(visited_subscribers, disposed_readers,
                                         ENTITYID_SEDP_BUILTIN_SUBSCRIPTIONS_ANNOUNCER)
          /\ last_call' = Call("delete_contained_entities", NoHandle, NoQos, NoMessage,
                               IF failure.kind = "None" THEN "Ok" ELSE "Error")
    /\ UNCHANGED <<participant_alive, enabled, user_defined_publisher_counter,
                   default_publisher_qos, user_defined_subscriber_counter,
                   default_subscriber_qos, user_defined_topic_counter, default_topic_qos,
                   issued,
                   ignoreVars, discoveryVars, readerVars, facadeVars,
                   waitVars, publisherImplVars, rtpsVars, extensionVars>>

\* is_empty
is_empty ==
    /\ Cardinality(DOMAIN user_defined_publisher_list) = 0
    /\ Cardinality(DOMAIN user_defined_subscriber_list) = 0
    /\ Cardinality(DOMAIN user_defined_topic_list) = 0

(***************************************************************************)
(* DomainParticipantActor: enable and the ignore sets.                     *)
(***************************************************************************)
enable ==
    /\ participant_alive
    /\ enabled' = TRUE
    /\ last_call' = Call("enable", NoHandle, NoQos, NoMessage, "Ok")
    /\ sent' = {}
    /\ UNCHANGED <<participant_alive, entityVars, ignoreVars, discoveryVars, readerVars,
                   facadeVars,
                   waitVars, publisherImplVars, rtpsVars, extensionVars>>

ignore_participant(handle) ==
    /\ participant_alive
    /\ IF enabled
       THEN /\ ignored_participants' = ignored_participants \cup {handle}
            /\ last_call' = Call("ignore_participant", handle, NoQos, NoMessage, "Ok")
       ELSE /\ last_call' = Call("ignore_participant", handle, NoQos, NoMessage, "NotEnabled")
            /\ UNCHANGED ignored_participants
    /\ sent' = {}
    /\ UNCHANGED <<participant_alive, enabled, entityVars, ignored_publications,
                   ignored_subcriptions, discoveryVars, readerVars, facadeVars,
                   waitVars, publisherImplVars, rtpsVars, extensionVars>>

ignore_subscription(handle) ==
    /\ participant_alive
    /\ IF enabled
       THEN /\ ignored_subcriptions' = ignored_subcriptions \cup {handle}
            /\ last_call' = Call("ignore_subscription", handle, NoQos, NoMessage, "Ok")
       ELSE /\ last_call' = Call("ignore_subscription", handle, NoQos, NoMessage, "NotEnabled")
            /\ UNCHANGED ignored_subcriptions
    /\ sent' = {}
    /\ UNCHANGED <<participant_alive, enabled, entityVars, ignored_participants,
                   ignored_publications, discoveryVars, readerVars, facadeVars,
                   waitVars, publisherImplVars, rtpsVars, extensionVars>>

\* ignore_publication without the test of enabled
ignore_publication_unguarded(handle) ==
    /\ participant_alive
    /\ ignored_publications' = ignored_publications \cup {handle}
    /\ last_call' = Call("ignore_publication", handle, NoQos, NoMessage,
                         IF enabled THEN "Ok" ELSE "NotEnabled")
    /\ sent' = {}
    /\ UNCHANGED <<participant_alive, enabled, entityVars, ignored_participants,
                   ignored_subcriptions, discoveryVars, readerVars, facadeVars,
                   waitVars, publisherImplVars, rtpsVars, extensionVars>>

ignore_publication(handle) ==
    /\ participant_alive
    /\ IF enabled
       THEN /\ ignored_publications' = ignored_publications \cup {handle}
            /\ last_call' = Call("ignore_publication", handle, NoQos, NoMessage, "Ok")
       ELSE /\ last_call' = Call("ignore_publication", handle, NoQos, NoMessage, "NotEnabled")
            /\ UNCHANGED ignored_publications
    /\ sent' = {}
    /\ UNCHANGED <<participant_alive, enabled, entityVars, ignored_participants,
                   ignored_subcriptions, discoveryVars, readerVars, facadeVars,
                   waitVars, publisherImplVars, rtpsVars, extensionVars>>

(***************************************************************************)
(* Remote entities the environment announces.                              *)
(***************************************************************************)
RemoteParticipantHandles == {ParticipantHandle(p) : p \in RemotePrefixes}

RemoteWriterHandle(prefix) ==
    InstanceHandle(Guid(prefix, EntityId(<<0, 0, 7>>, "USER_DEFINED_WRITER_WITH_KEY")))

RemoteReaderHandle(prefix) ==
    InstanceHandle(Guid(prefix, EntityId(<<0, 0, 8>>, "USER_DEFINED_READER_WITH_KEY")))

SedpEndpoints ==
    {"sedp_publications_announcer", "sedp_publications_detector",
     "sedp_subscriptions_announcer", "sedp_subscriptions_detector",
     "sedp_topics_announcer", "sedp_topics_detector"}

\* the application threads that call create_* on the RtpsProtocol
Callers == {1}

Tasks == {"t1", "t2"}

IdleTask ==
    [op |-> "idle", pc |-> "idle", qos |-> NoQos, q |-> NoQos, is_enabled |-> FALSE,
     current_qos |-> NoQos, data |-> NoQos, events |-> <<>>, ret |-> "None"]

\* the task of wait_for_historical_data before its call
IdleWait ==
    [pc |-> "idle", deadline |-> 0, request |-> FALSE, reply |-> "None", woken |-> FALSE,
     polled |-> {}, ret |-> "None", returned_at |-> 0]

\* the publishers the application holds Publisher handles of
PublisherNames == {"pub1", "pub2"}

\* PublisherImpl::new
PublisherImpl_new ==
    [alive |-> TRUE, default_data_writer_qos |-> Qos_default, data_writer_list |-> <<>>]

\* [i32; 8] with every bit clear; a word is the set of its bit positions that are 1
ZeroBitmap == [array_index \in 0..7 |-> {}]

\* no SequenceNumberSet collected yet, no iterator made yet
NoSequenceNumberSet == [status |-> "None", base |-> 0, bitmap |-> ZeroBitmap]

NoIterator == [status |-> "None", set |-> NoSequenceNumberSet, index |-> 0]

NoConversion == [op |-> "None"]

NoRequest == [op |-> "None"]

\* the three Mutex fields of PublisherImpl
Mutexes == {"default_data_writer_qos", "protocol_publisher", "data_writer_list"}

\* the threads sharing one Publisher
PublisherThreads == {"a", "b"}

\* a thread outside create_datawriter and delete_datawriter, with the writers its
\* calls have created and deleted so far
IdleThread == [pc |-> "idle", op |-> "None", writer |-> 0, created |-> {}, deleted |-> {}]

(***************************************************************************)
(* The state after DomainParticipantActor::new and the creation of one     *)
(* data reader, one topic facade, two publishers with their handles and    *)
(* one stateless reader.                                                   *)
(***************************************************************************)
Init ==
    /\ participant_alive = TRUE
    /\ enabled = FALSE
    /\ user_defined_publisher_list = EmptyMap
    /\ user_defined_publisher_counter = 0
    /\ default_publisher_qos = PublisherQos_default
    /\ user_defined_subscriber_list = EmptyMap
    /\ user_defined_subscriber_counter = 0
    /\ default_subscriber_qos = SubscriberQos_default
    /\ user_defined_topic_list = EmptyMap
    /\ user_defined_topic_counter = 0
    /\ default_topic_qos = Qos_default
    /\ ignored_participants = {}
    /\ ignored_publications = {}
    /\ ignored_subcriptions = {}
    /\ discovered_participant_list = EmptyMap
    /\ discovered_topic_list = EmptyMap
    /\ builtin_matched = [e \in SedpEndpoints |-> {}]
    /\ sedp_cache = [d \in {"DCPSPublication", "DCPSSubscription", "DCPSTopic"} |-> EmptyMap]
    /\ sent = {}
    /\ last_call = Call("new", NoHandle, NoQos, NoMessage, "Ok")
    /\ issued = EmptyMap
    /\ elapsed = EmptyMap
    /\ reader_enabled = FALSE
    /\ reader_qos = Qos_default
    /\ task = [t \in Tasks |-> IdleTask]
    /\ announce_count = 0
    /\ last_announced = NoQos
    /\ calls = 0
    /\ rtps_topic_valid = TRUE
    /\ topic_qos = Qos_default
    /\ now = 0
    /\ wait = IdleWait
    /\ historical_data_received = FALSE
    /\ reader_alive = TRUE
    /\ publisher_impl = [p \in PublisherNames |-> PublisherImpl_new]
    /\ data_writer_impl = EmptyMap
    /\ reader_cache = <<>>
    /\ sequence_numbers = <<>>
    /\ sequence_number_set = NoSequenceNumberSet
    /\ iterator = NoIterator
    /\ yielded = <<>>
    /\ reader_samples = <<>>
    /\ delivered = <<>>
    /\ listener = "NoListener"
    /\ status_kind = {}
    /\ converted = NoConversion
    /\ awaiting = NoRequest
    /\ protocol_participant = [mutex |-> None]
    /\ thread_handle = <<>>
    /\ caller = [c \in Callers |-> "idle"]
    /\ resets_since_send = None
    /\ publisher_mutex = [m \in Mutexes |-> None]
    /\ publisher_thread = [t \in PublisherThreads |-> IdleThread]

(***************************************************************************)
(* Discovery data.                                                         *)
(***************************************************************************)
\* the participant's own domain id and domain tag
domain_id == 0
domain_tag == ""

\* get_discovered_topics: self.discovered_topic_list.keys().cloned().collect()
get_discovered_topics == DOMAIN discovered_topic_list

\* ignore_topic is not implemented: the set stays as new() built it
ignored_topic_list == {}

Locators(prefix, list) == <<[prefix |-> prefix, list |-> list]>>

\* domain_id is an Option: {} is None, {d} is Some(d)
SpdpDiscoveredParticipantData(prefix, id, tag, endpoints) ==
    [kind |-> "DCPSParticipant",
     key |-> ParticipantHandle(prefix),
     guid_prefix |-> prefix,
     domain_id |-> id,
     domain_tag |-> tag,
     available_builtin_endpoints |-> endpoints,
     metatraffic_unicast_locator_list |-> Locators(prefix, "metatraffic_unicast"),
     metatraffic_multicast_locator_list |-> Locators(prefix, "metatraffic_multicast"),
     default_unicast_locator_list |-> Locators(prefix, "default_unicast"),
     default_multicast_locator_list |-> Locators(prefix, "default_multicast")]

DiscoveredWriterData(prefix, topic_name) ==
    [kind |-> "DCPSPublication", instance_state |-> "Alive",
     key |-> RemoteWriterHandle(prefix), remote_guid_prefix |-> prefix,
     topic_name |-> topic_name]

DiscoveredReaderData(prefix, topic_name) ==
    [kind |-> "DCPSSubscription", instance_state |-> "Alive",
     key |-> RemoteReaderHandle(prefix), remote_guid_prefix |-> prefix,
     topic_name |-> topic_name]

DiscoveredTopicData(prefix, topic_name) ==
    [kind |-> "DCPSTopic", instance_state |-> "Alive",
     key |-> InstanceHandle(Guid(prefix, EntityId(<<0, 0, 9>>, "USER_DEFINED_TOPIC"))),
     topic_name |-> topic_name]

\* a dispose of the instance of a DCPSPublication or DCPSSubscription sample
Disposed(data) ==
    [kind |-> data.kind, instance_state |-> "NotAliveDisposed", key |-> data.key]

\* the sample of the instance of data once its writers are gone
NotAliveNoWriters(data) ==
    [kind |-> data.kind, instance_state |-> "NotAliveNoWriters", key |-> data.key]

\* a sample of the instance of data whose payload deserialize_data rejects
Malformed(data) ==
    [kind |-> data.kind, instance_state |-> "Alive", key |-> data.key,
     serialized_payload |-> "malformed"]

\* a sample of the instance of data that carries no data
NoData(data) ==
    [kind |-> data.kind, instance_state |-> "Alive", key |-> data.key,
     serialized_payload |-> "None"]

\* the sample carries data and deserialize_data returns Ok
deserialize_data_is_ok(sample) == "serialized_payload" \notin DOMAIN sample

TopicBuiltinTopicData(topic_name) == [name |-> topic_name]

RtpsReaderProxy(remote_reader_guid, unicast_locator_list, multicast_locator_list) ==
    [remote_reader_guid |-> remote_reader_guid,
     unicast_locator_list |-> unicast_locator_list,
     multicast_locator_list |-> multicast_locator_list]

RtpsWriterProxy(remote_writer_guid, unicast_locator_list, multicast_locator_list) ==
    [remote_writer_guid |-> remote_writer_guid,
     unicast_locator_list |-> unicast_locator_list,
     multicast_locator_list |-> multicast_locator_list]

(***************************************************************************)
(* SPDP: matching the six builtin SEDP endpoints of a discovered           *)
(* participant.  matched is the map endpoint -> proxies of the builtin     *)
(* publisher's data writers and the builtin subscriber's data readers.     *)
(***************************************************************************)
add_matched_publications_detector(matched, data) ==
    IF "BUILTIN_ENDPOINT_PUBLICATIONS_DETECTOR" \in data.available_builtin_endpoints
    THEN [matched EXCEPT !["sedp_publications_announcer"] = @ \cup
            {RtpsReaderProxy(Guid(data.guid_prefix, ENTITYID_SEDP_BUILTIN_PUBLICATIONS_DETECTOR),
                             data.metatraffic_unicast_locator_list,
                             data.metatraffic_multicast_locator_list)}]
    ELSE matched

add_matched_publications_announcer(matched, data) ==
    IF "BUILTIN_ENDPOINT_PUBLICATIONS_ANNOUNCER" \in data.available_builtin_endpoints
    THEN [matched EXCEPT !["sedp_publications_detector"] = @ \cup
            {RtpsWriterProxy(Guid(data.guid_prefix, ENTITYID_SEDP_BUILTIN_PUBLICATIONS_ANNOUNCER),
                             data.metatraffic_unicast_locator_list,
                             data.metatraffic_multicast_locator_list)}]
    ELSE matched

add_matched_subscriptions_detector(matched, data) ==
    IF "BUILTIN_ENDPOINT_SUBSCRIPTIONS_DETECTOR" \in data.available_builtin_endpoints
    THEN [matched EXCEPT !["sedp_subscriptions_announcer"] = @ \cup
            {RtpsReaderProxy(Guid(data.guid_prefix, ENTITYID_SEDP_BUILTIN_SUBSCRIPTIONS_DETECTOR),
                             data.metatraffic_unicast_locator_list,
                             data.metatraffic_multicast_locator_list)}]
    ELSE matched

add_matched_subscriptions_announcer(matched, data) ==
    IF "BUILTIN_ENDPOINT_SUBSCRIPTIONS_ANNOUNCER" \in data.available_builtin_endpoints
    THEN [matched EXCEPT !["sedp_subscriptions_detector"] = @ \cup
            {RtpsWriterProxy(Guid(data.guid_prefix, ENTITYID_SEDP_BUILTIN_SUBSCRIPTIONS_ANNOUNCER),
                             data.metatraffic_unicast_locator_list,
                             data.metatraffic_multicast_locator_list)}]
    ELSE matched

add_matched_topics_detector(matched, data) ==
    IF "BUILTIN_ENDPOINT_TOPICS_DETECTOR" \in data.available_builtin_endpoints
    THEN [matched EXCEPT !["sedp_topics_announcer"] = @ \cup
            {RtpsReaderProxy(Guid(data.guid_prefix, ENTITYID_SEDP_BUILTIN_TOPICS_DETECTOR),
                             data.metatraffic_unicast_locator_list,
                             data.metatraffic_multicast_locator_list)}]
    ELSE matched

\* add_matched_topics_announcer with the default locator lists
add_matched_topics_announcer_default_locators(matched, data) ==
    IF "BUILTIN_ENDPOINT_TOPICS_ANNOUNCER" \in data.available_builtin_endpoints
    THEN [matched EXCEPT !["sedp_topics_detector"] = @ \cup
            {RtpsWriterProxy(Guid(data.guid_prefix, ENTITYID_SEDP_BUILTIN_TOPICS_ANNOUNCER),
                             data.default_unicast_locator_list,
                             data.default_multicast_locator_list)}]
    ELSE matched

add_matched_topics_announcer(matched, data) ==
    IF "BUILTIN_ENDPOINT_TOPICS_ANNOUNCER" \in data.available_builtin_endpoints
    THEN [matched EXCEPT !["sedp_topics_detector"] = @ \cup
            {RtpsWriterProxy(Guid(data.guid_prefix, ENTITYID_SEDP_BUILTIN_TOPICS_ANNOUNCER),
                             data.metatraffic_unicast_locator_list,
                             data.metatraffic_multicast_locator_list)}]
    ELSE matched

\* process_discovered_participant_data without the three tests
process_discovered_participant_data_unfiltered(discovery, data) ==
    [matched |->
        add_matched_topics_announcer(
        add_matched_topics_detector(
        add_matched_subscriptions_announcer(
        add_matched_subscriptions_detector(
        add_matched_publications_announcer(
        add_matched_publications_detector(discovery.matched, data), data), data), data),
        data), data),
     list |-> MapInsert(discovery.list, data.key, data),
     accepted |-> discovery.accepted \cup {data.key}]

\* discovery is [matched, list, accepted]: the builtin endpoints' proxies, the
\* discovered_participant_list and the handles accepted by this call
process_discovered_participant_data(discovery, data) ==
    LET is_domain_id_matching ==
            (IF data.domain_id = {} THEN domain_id
                                    ELSE CHOOSE d \in data.domain_id : TRUE) = domain_id
        is_domain_tag_matching == data.domain_tag = domain_tag
        discovered_participant_handle == data.key
        is_participant_ignored == discovered_participant_handle \in ignored_participants
    IN IF is_domain_id_matching /\ is_domain_tag_matching /\ ~is_participant_ignored
       THEN [matched |->
                add_matched_topics_announcer(
                add_matched_topics_detector(
                add_matched_subscriptions_announcer(
                add_matched_subscriptions_detector(
                add_matched_publications_announcer(
                add_matched_publications_detector(discovery.matched, data), data), data),
                data), data), data),
             list |-> MapInsert(discovery.list, discovered_participant_handle, data),
             accepted |-> discovery.accepted \cup {discovered_participant_handle}]
       ELSE discovery

\* the SPDP reader returns the samples not read yet: the one of this message
process_spdp_participant_discovery(discovery, message) ==
    IF message.kind = "DCPSParticipant" /\ deserialize_data_is_ok(message)
    THEN process_discovered_participant_data(discovery, message)
    ELSE discovery

\* the for loop of process_spdp_participant_discovery ending at the first sample
\* it cannot process
RECURSIVE process_spdp_participant_discovery_until_invalid(_, _)
process_spdp_participant_discovery_until_invalid(discovery, submessages) ==
    IF submessages = <<>> THEN discovery
    ELSE IF Head(submessages).kind = "DCPSParticipant"
            /\ ~deserialize_data_is_ok(Head(submessages))
    THEN discovery
    ELSE process_spdp_participant_discovery_until_invalid(
             process_spdp_participant_discovery(discovery, Head(submessages)),
             Tail(submessages))

\* the for loop of process_spdp_participant_discovery over the samples of the
\* submessages of one message, which the read returns in the order received
RECURSIVE process_spdp_participant_discovery_samples(_, _)
process_spdp_participant_discovery_samples(discovery, submessages) ==
    IF submessages = <<>> THEN discovery
    ELSE process_spdp_participant_discovery_samples(
             process_spdp_participant_discovery(discovery, Head(submessages)),
             Tail(submessages))

(***************************************************************************)
(* SEDP: the detectors are read in any sample state, so every metatraffic  *)
(* message walks all the samples the detectors hold.  A result is          *)
(* [sent, topics]: the requests sent to user-defined entities and the      *)
(* <<handle, topic data>> pairs inserted in discovered_topic_list.         *)
(***************************************************************************)
\* add_matched_writer without the tests of the ignore sets
add_matched_writer_unfiltered(data, participants) ==
    LET participant_handle == ParticipantHandle(data.remote_guid_prefix)
    IN IF participant_handle \in DOMAIN participants
       THEN [sent |->
                {[kind |-> "add_matched_writer", to |-> subscriber, data |-> data,
                  default_unicast_locator_list |->
                      participants[participant_handle].default_unicast_locator_list,
                  default_multicast_locator_list |->
                      participants[participant_handle].default_multicast_locator_list,
                  participant_mask_listener |-> <<listener, status_kind>>]
                 : subscriber \in DOMAIN user_defined_subscriber_list},
             topics |-> {<<data.key, TopicBuiltinTopicData(data.topic_name)>>}]
       ELSE [sent |-> {}, topics |-> {}]

add_matched_writer(data, participants) ==
    LET participant_handle == ParticipantHandle(data.remote_guid_prefix)
        is_participant_ignored == participant_handle \in ignored_participants
        is_publication_ignored == data.key \in ignored_publications
    IN IF ~is_publication_ignored /\ ~is_participant_ignored
          /\ participant_handle \in DOMAIN participants
       THEN [sent |->
                {[kind |-> "add_matched_writer", to |-> subscriber, data |-> data,
                  default_unicast_locator_list |->
                      participants[participant_handle].default_unicast_locator_list,
                  default_multicast_locator_list |->
                      participants[participant_handle].default_multicast_locator_list,
                  participant_mask_listener |-> <<listener, status_kind>>]
                 : subscriber \in DOMAIN user_defined_subscriber_list},
             topics |-> {<<data.key, TopicBuiltinTopicData(data.topic_name)>>}]
       ELSE [sent |-> {}, topics |-> {}]

remove_matched_writer(discovered_writer_handle) ==
    [sent |-> {[kind |-> "remove_matched_writer", to |-> subscriber,
                handle |-> discovered_writer_handle,
                participant_mask_listener |-> <<listener, status_kind>>]
               : subscriber \in DOMAIN user_defined_subscriber_list},
     topics |-> {}]

\* add_matched_reader asking one publisher only and not recording the topic
add_matched_reader_one_publisher(data, participants) ==
    LET participant_handle == ParticipantHandle(data.remote_guid_prefix)
        is_participant_ignored == participant_handle \in ignored_participants
        is_subscription_ignored == data.key \in ignored_subcriptions
    IN IF ~is_subscription_ignored /\ ~is_participant_ignored
          /\ participant_handle \in DOMAIN participants
          /\ user_defined_publisher_list # EmptyMap
       THEN [sent |->
                {[kind |-> "add_matched_reader",
                  to |-> CHOOSE publisher \in DOMAIN user_defined_publisher_list : TRUE,
                  data |-> data,
                  default_unicast_locator_list |->
                      participants[participant_handle].default_unicast_locator_list,
                  default_multicast_locator_list |->
                      participants[participant_handle].default_multicast_locator_list,
                  participant_publication_matched_listener |->
                      IF "PublicationMatched" \in status_kind
                      THEN Some(listener) ELSE None,
                  offered_incompatible_qos_participant_listener |->
                      IF "OfferedIncompatibleQos" \in status_kind
                      THEN Some(listener) ELSE None]},
             topics |-> {}]
       ELSE [sent |-> {}, topics |-> {}]

add_matched_reader(data, participants) ==
    LET participant_handle == ParticipantHandle(data.remote_guid_prefix)
        is_participant_ignored == participant_handle \in ignored_participants
        is_subscription_ignored == data.key \in ignored_subcriptions
    IN IF ~is_subscription_ignored /\ ~is_participant_ignored
          /\ participant_handle \in DOMAIN participants
       THEN [sent |->
                {[kind |-> "add_matched_reader", to |-> publisher, data |-> data,
                  default_unicast_locator_list |->
                      participants[participant_handle].default_unicast_locator_list,
                  default_multicast_locator_list |->
                      participants[participant_handle].default_multicast_locator_list,
                  participant_publication_matched_listener |->
                      IF "PublicationMatched" \in status_kind
                      THEN Some(listener) ELSE None,
                  offered_incompatible_qos_participant_listener |->
                      IF "OfferedIncompatibleQos" \in status_kind
                      THEN Some(listener) ELSE None]
                 : publisher \in DOMAIN user_defined_publisher_list},
             topics |-> {<<data.key, TopicBuiltinTopicData(data.topic_name)>>}]
       ELSE [sent |-> {}, topics |-> {}]

\* remove_matched_reader offering the listener whatever the mask holds
remove_matched_reader_listener_unmasked(discovered_reader_handle) ==
    [sent |-> {[kind |-> "remove_matched_reader", to |-> publisher,
                handle |-> discovered_reader_handle,
                participant_publication_matched_listener |-> Some(listener)]
               : publisher \in DOMAIN user_defined_publisher_list},
     topics |-> {}]

remove_matched_reader(discovered_reader_handle) ==
    [sent |-> {[kind |-> "remove_matched_reader", to |-> publisher,
                handle |-> discovered_reader_handle,
                participant_publication_matched_listener |->
                    IF "PublicationMatched" \in status_kind
                    THEN Some(listener) ELSE None]
               : publisher \in DOMAIN user_defined_publisher_list},
     topics |-> {}]

add_matched_topic(data) ==
    LET handle == data.key
        is_topic_ignored == handle \in ignored_topic_list
    IN IF ~is_topic_ignored
       THEN [sent |-> {[kind |-> "process_discovered_topic", to |-> topic, data |-> data]
                       : topic \in DOMAIN user_defined_topic_list},
             topics |-> {<<handle, TopicBuiltinTopicData(data.topic_name)>>}]
       ELSE [sent |-> {}, topics |-> {}]

\* the union of the results of handling every sample of one detector
Collect(results) ==
    [sent |-> UNION {r.sent : r \in results}, topics |-> UNION {r.topics : r \in results}]

Samples(cache) == {cache[h] : h \in DOMAIN cache}

process_sedp_publications_discovery(cache, participants) ==
    Collect({IF sample.instance_state = "Alive"
             THEN IF deserialize_data_is_ok(sample)
                  THEN add_matched_writer(sample, participants)
                  ELSE [sent |-> {}, topics |-> {}]
             ELSE remove_matched_writer(sample.key)
             : sample \in Samples(cache)})

process_sedp_subscriptions_discovery(cache, participants) ==
    Collect({IF sample.instance_state = "Alive"
             THEN IF deserialize_data_is_ok(sample)
                  THEN add_matched_reader(sample, participants)
                  ELSE [sent |-> {}, topics |-> {}]
             ELSE remove_matched_reader(sample.key)
             : sample \in Samples(cache)})

process_sedp_topics_discovery(cache) ==
    Collect({IF deserialize_data_is_ok(sample)
             THEN add_matched_topic(sample)
             ELSE [sent |-> {}, topics |-> {}]
             : sample \in Samples(cache)})

\* HashMap::insert of every pair, the pairs of one call having distinct keys
InsertAll(map, pairs) ==
    [k \in DOMAIN map \cup {pair[1] : pair \in pairs} |->
        IF \E pair \in pairs : pair[1] = k
        THEN (CHOOSE pair \in pairs : pair[1] = k)[2]
        ELSE map[k]]

\* the builtin subscriber hands the message to its SEDP detectors, which keep
\* the last sample of every instance
builtin_subscriber_process_rtps_message(cache, message) ==
    IF message.kind \in DOMAIN cache
    THEN [cache EXCEPT ![message.kind] = MapInsert(@, message.key, message)]
    ELSE cache

\* the samples of a detector at which the match on instance_state reaches todo!()
todo(detector, samples) ==
    {h \in DOMAIN samples :
        IF detector = "DCPSTopic" THEN samples[h].instance_state # "Alive"
        ELSE samples[h].instance_state = "NotAliveNoWriters"}

\* the detectors in the order process_builtin_discovery reads them
Detectors == <<"DCPSPublication", "DCPSSubscription", "DCPSTopic">>

\* what the three loops get to handle: every sample of every detector, or, when a
\* read holds a sample that reaches todo!(), the reads before that one and any of
\* the other samples of that read (a read returns the instances in its own order)
Handled(cache) ==
    LET panics == {i \in DOMAIN Detectors : todo(Detectors[i], cache[Detectors[i]]) # {}}
    IN IF panics = {} THEN {cache}
       ELSE LET first == CHOOSE i \in panics : \A j \in panics : i <= j
                detector == Detectors[first]
            IN {[d \in DOMAIN cache |->
                    IF \E i \in DOMAIN Detectors : i < first /\ Detectors[i] = d
                    THEN cache[d]
                    ELSE IF d = detector THEN [h \in before |-> cache[d][h]]
                    ELSE EmptyMap]
                : before \in SUBSET (DOMAIN cache[detector] \ todo(detector, cache[detector]))}

\* process_builtin_discovery that reads the SEDP detectors before the SPDP reader
process_metatraffic_rtps_message_sedp_first(message) ==
    /\ participant_alive
    /\ LET cache == builtin_subscriber_process_rtps_message(sedp_cache, message)
           spdp == process_spdp_participant_discovery(
                       [matched |-> builtin_matched, list |-> discovered_participant_list,
                        accepted |-> {}], message)
       IN \E handled \in Handled(cache) :
              LET publications ==
                      process_sedp_publications_discovery(handled["DCPSPublication"],
                                                          discovered_participant_list)
                  subscriptions ==
                      process_sedp_subscriptions_discovery(handled["DCPSSubscription"],
                                                           discovered_participant_list)
                  topics == process_sedp_topics_discovery(handled["DCPSTopic"])
              IN /\ sedp_cache' = cache
                 /\ builtin_matched' = spdp.matched
                 /\ discovered_participant_list' = spdp.list
                 /\ elapsed' = [h \in DOMAIN elapsed \cup spdp.accepted |->
                                   IF h \in spdp.accepted THEN 0 ELSE elapsed[h]]
                 /\ discovered_topic_list' =
                        InsertAll(InsertAll(InsertAll(discovered_topic_list,
                                                      publications.topics),
                                            subscriptions.topics), topics.topics)
                 /\ sent' = publications.sent \cup subscriptions.sent \cup topics.sent
                 /\ participant_alive' = (handled = cache)
                 /\ last_call' = Call("process_metatraffic_rtps_message", NoHandle, NoQos, message,
                                      IF handled = cache THEN "Ok" ELSE "panic")
    /\ delivered' = <<[kind |-> "process_rtps_message", to |-> builtin_subscriber],
                       [kind |-> "process_rtps_message", to |-> builtin_publisher]>>
    /\ UNCHANGED <<enabled, entityVars, ignoreVars, readerVars,
                   facadeVars, waitVars, publisherImplVars, rtpsVars,
                   reader_samples, listenerVars, converted,
                   concurrencyVars>>

process_metatraffic_rtps_message(message) ==
    /\ participant_alive
    /\ LET cache == builtin_subscriber_process_rtps_message(sedp_cache, message)
           spdp == process_spdp_participant_discovery(
                       [matched |-> builtin_matched, list |-> discovered_participant_list,
                        accepted |-> {}], message)
       IN \E handled \in Handled(cache) :
              LET publications ==
                      process_sedp_publications_discovery(handled["DCPSPublication"],
                                                          spdp.list)
                  subscriptions ==
                      process_sedp_subscriptions_discovery(handled["DCPSSubscription"],
                                                           spdp.list)
                  topics == process_sedp_topics_discovery(handled["DCPSTopic"])
              IN /\ sedp_cache' = cache
                 /\ builtin_matched' = spdp.matched
                 /\ discovered_participant_list' = spdp.list
                 /\ elapsed' = [h \in DOMAIN elapsed \cup spdp.accepted |->
                                   IF h \in spdp.accepted THEN 0 ELSE elapsed[h]]
                 /\ discovered_topic_list' =
                        InsertAll(InsertAll(InsertAll(discovered_topic_list,
                                                      publications.topics),
                                            subscriptions.topics), topics.topics)
                 /\ sent' = publications.sent \cup subscriptions.sent \cup topics.sent
                 /\ participant_alive' = (handled = cache)
                 /\ last_call' = Call("process_metatraffic_rtps_message", NoHandle, NoQos, message,
                                      IF handled = cache THEN "Ok" ELSE "panic")
    /\ delivered' = <<[kind |-> "process_rtps_message", to |-> builtin_subscriber],
                       [kind |-> "process_rtps_message", to |-> builtin_publisher]>>
    /\ UNCHANGED <<enabled, entityVars, ignoreVars, readerVars,
                   facadeVars, waitVars, publisherImplVars, rtpsVars,
                   reader_samples, listenerVars, converted,
                   concurrencyVars>>

\* the builtin subscriber is handed every DATA submessage of the message
RECURSIVE builtin_subscriber_process_rtps_submessages(_, _)
builtin_subscriber_process_rtps_submessages(cache, submessages) ==
    IF submessages = <<>> THEN cache
    ELSE builtin_subscriber_process_rtps_submessages(
             builtin_subscriber_process_rtps_message(cache, Head(submessages)),
             Tail(submessages))

\* process_metatraffic_rtps_message for a message with several DATA submessages:
\* the builtin readers take them all, then process_builtin_discovery runs once
process_metatraffic_rtps_submessages(submessages) ==
    /\ participant_alive
    /\ LET cache == builtin_subscriber_process_rtps_submessages(sedp_cache, submessages)
           spdp == process_spdp_participant_discovery_samples(
                       [matched |-> builtin_matched, list |-> discovered_participant_list,
                        accepted |-> {}], submessages)
       IN \E handled \in Handled(cache) :
              LET publications ==
                      process_sedp_publications_discovery(handled["DCPSPublication"],
                                                          spdp.list)
                  subscriptions ==
                      process_sedp_subscriptions_discovery(handled["DCPSSubscription"],
                                                           spdp.list)
                  topics == process_sedp_topics_discovery(handled["DCPSTopic"])
              IN /\ sedp_cache' = cache
                 /\ builtin_matched' = spdp.matched
                 /\ discovered_participant_list' = spdp.list
                 /\ elapsed' = [h \in DOMAIN elapsed \cup spdp.accepted |->
                                   IF h \in spdp.accepted THEN 0 ELSE elapsed[h]]
                 /\ discovered_topic_list' =
                        InsertAll(InsertAll(InsertAll(discovered_topic_list,
                                                      publications.topics),
                                            subscriptions.topics), topics.topics)
                 /\ sent' = publications.sent \cup subscriptions.sent \cup topics.sent
                 /\ participant_alive' = (handled = cache)
                 /\ last_call' = Call("process_metatraffic_rtps_submessages", NoHandle, NoQos,
                                      [kind |-> "RtpsMessage",
                                       submessages |-> submessages],
                                      IF handled = cache THEN "Ok" ELSE "panic")
    /\ delivered' = <<[kind |-> "process_rtps_message", to |-> builtin_subscriber],
                       [kind |-> "process_rtps_message", to |-> builtin_publisher]>>
    /\ UNCHANGED <<enabled, entityVars, ignoreVars, readerVars,
                   facadeVars, waitVars, publisherImplVars, rtpsVars,
                   reader_samples, listenerVars, converted,
                   concurrencyVars>>

\* the listener names the DomainParticipantListenerActor spawned for it
set_listener(a_listener, mask) ==
    /\ participant_alive
    /\ listener' = a_listener
    /\ status_kind' = mask
    /\ sent' = {}
    /\ last_call' = Call("set_listener", NoHandle, NoQos,
                         [kind |-> "set_listener", listener |-> a_listener,
                          status_kind |-> mask], "Ok")
    /\ UNCHANGED <<participant_alive, enabled, entityVars, ignoreVars, discoveryVars,
                   readerVars, facadeVars, waitVars, publisherImplVars, rtpsVars,
                   reader_samples, delivered, converted,
                   concurrencyVars>>

\* HashMap::values(): the entries of the map once each, in an order of the
\* map's own choosing
Values(map) ==
    {order \in [1..Cardinality(DOMAIN map) -> DOMAIN map] :
        \A i, j \in DOMAIN order : order[i] = order[j] => i = j}

\* for each entity in turn: process_rtps_message, then send_message
process_then_send(order) ==
    [i \in 1..(2 * Len(order)) |->
        [kind |-> IF i % 2 = 1 THEN "process_rtps_message" ELSE "send_message",
         to |-> order[(i + 1) \div 2]]]

\* process_user_defined_rtps_message without the loop over the publishers
process_user_defined_rtps_message_subscribers_only(message) ==
    /\ participant_alive
    /\ \E subscribers \in Values(user_defined_subscriber_list) :
           delivered' = process_then_send(subscribers)
    /\ sent' = {}
    /\ last_call' = Call("process_user_defined_rtps_message", NoHandle, NoQos, message, "Ok")
    /\ UNCHANGED <<participant_alive, enabled, entityVars, ignoreVars, discoveryVars,
                   readerVars, facadeVars, waitVars, publisherImplVars, rtpsVars,
                   reader_samples, listenerVars, converted,
                   concurrencyVars>>

process_user_defined_rtps_message(message) ==
    /\ participant_alive
    /\ \E subscribers \in Values(user_defined_subscriber_list),
          publishers \in Values(user_defined_publisher_list) :
           delivered' = process_then_send(subscribers) \o process_then_send(publishers)
    /\ sent' = {}
    /\ last_call' = Call("process_user_defined_rtps_message", NoHandle, NoQos, message, "Ok")
    /\ UNCHANGED <<participant_alive, enabled, entityVars, ignoreVars, discoveryVars,
                   readerVars, facadeVars, waitVars, publisherImplVars, rtpsVars,
                   reader_samples, listenerVars, converted,
                   concurrencyVars>>

\* the clock the participant reads advances by one tick: every discovered
\* participant's lease gets one tick older, until one tick past its end
Tick ==
    /\ participant_alive
    /\ \E h \in DOMAIN elapsed : elapsed[h] <= LeaseTicks
    /\ elapsed' = [h \in DOMAIN elapsed |->
                      IF elapsed[h] <= LeaseTicks THEN elapsed[h] + 1 ELSE elapsed[h]]
    /\ last_call' = Call("get_current_time", NoHandle, NoQos, NoMessage, "Ok")
    /\ sent' = {}
    /\ UNCHANGED <<participant_alive, enabled, entityVars, ignoreVars,
                   discovered_participant_list, discovered_topic_list, builtin_matched,
                   sedp_cache, readerVars, facadeVars,
                   waitVars, publisherImplVars, rtpsVars, extensionVars>>

(***************************************************************************)
(* DataReaderAsync::enable and DataReaderAsync::set_qos.  A call is a      *)
(* sequence of requests to the reader actor and the participant actor;     *)
(* task[t] holds the position of task t in its call, what it has read, and *)
(* the requests that changed state so far (events).                        *)
(***************************************************************************)
Step(op) == Call(op, NoHandle, NoQos, NoMessage, "Ok")

CanCall(t) == task[t].pc \in {"idle", "done"} /\ calls < MaxCalls

\* enable_is_enabled with the answer not looked at
enable_is_enabled_ignored(t) ==
    /\ CanCall(t)
    /\ calls' = calls + 1
    /\ task' = [task EXCEPT ![t] =
                   [IdleTask EXCEPT !.op = "enable", !.is_enabled = reader_enabled,
                                    !.pc = "enable"]]
    /\ last_call' = Step("enable_is_enabled")
    /\ sent' = {}
    /\ UNCHANGED <<participant_alive, enabled, entityVars, ignoreVars, discoveryVars,
                   reader_enabled, reader_qos, announce_count, last_announced, facadeVars,
                   waitVars, publisherImplVars, rtpsVars, extensionVars>>

\* enable: reader_address.is_enabled()
enable_is_enabled(t) ==
    /\ CanCall(t)
    /\ calls' = calls + 1
    /\ task' = [task EXCEPT ![t] =
                   [IdleTask EXCEPT !.op = "enable", !.is_enabled = reader_enabled,
                                    !.pc = IF reader_enabled THEN "done" ELSE "enable",
                                    !.ret = IF reader_enabled THEN "Ok" ELSE "None"]]
    /\ last_call' = Step("enable_is_enabled")
    /\ sent' = {}
    /\ UNCHANGED <<participant_alive, enabled, entityVars, ignoreVars, discoveryVars,
                   reader_enabled, reader_qos, announce_count, last_announced, facadeVars,
                   waitVars, publisherImplVars, rtpsVars, extensionVars>>

\* enable: reader_address.enable()
enable_enable(t) ==
    /\ task[t].pc = "enable"
    /\ reader_enabled' = TRUE
    /\ task' = [task EXCEPT ![t].pc = "as_discovered_reader_data",
                            ![t].events = Append(@, "enable")]
    /\ last_call' = Step("enable_enable")
    /\ sent' = {}
    /\ UNCHANGED <<participant_alive, enabled, entityVars, ignoreVars, discoveryVars,
                   reader_qos, announce_count, last_announced, calls, facadeVars,
                   waitVars, publisherImplVars, rtpsVars, extensionVars>>

\* set_qos: the QoS to set, with the consistency check of a Specific one
set_qos_qos(t, qos) ==
    /\ CanCall(t)
    /\ calls' = calls + 1
    /\ LET q == IF qos.kind = "Default" THEN default_datareader_qos ELSE qos.q
           consistent == qos.kind = "Default" \/ is_consistent(q)
       IN task' = [task EXCEPT ![t] =
                      [IdleTask EXCEPT !.op = "set_qos", !.qos = qos, !.q = q,
                                       !.pc = IF consistent THEN "is_enabled" ELSE "done",
                                       !.ret = IF consistent THEN "None"
                                                             ELSE "InconsistentPolicy"]]
    /\ last_call' = Step("set_qos_qos")
    /\ sent' = {}
    /\ UNCHANGED <<participant_alive, enabled, entityVars, ignoreVars, discoveryVars,
                   reader_enabled, reader_qos, announce_count, last_announced, facadeVars,
                   waitVars, publisherImplVars, rtpsVars, extensionVars>>

\* set_qos: reader_address.is_enabled()
set_qos_is_enabled(t) ==
    /\ task[t].pc = "is_enabled"
    /\ task' = [task EXCEPT ![t].is_enabled = reader_enabled,
                            ![t].pc = IF reader_enabled THEN "get_qos" ELSE "set_qos"]
    /\ last_call' = Step("set_qos_is_enabled")
    /\ sent' = {}
    /\ UNCHANGED <<participant_alive, enabled, entityVars, ignoreVars, discoveryVars,
                   reader_enabled, reader_qos, announce_count, last_announced, calls,
                   facadeVars,
                   waitVars, publisherImplVars, rtpsVars, extensionVars>>

\* set_qos_get_qos without check_immutability
set_qos_get_qos_unchecked(t) ==
    /\ task[t].pc = "get_qos"
    /\ task' = [task EXCEPT ![t].current_qos = reader_qos, ![t].pc = "set_qos"]
    /\ last_call' = Step("set_qos_get_qos")
    /\ sent' = {}
    /\ UNCHANGED <<participant_alive, enabled, entityVars, ignoreVars, discoveryVars,
                   reader_enabled, reader_qos, announce_count, last_announced, calls,
                   facadeVars,
                   waitVars, publisherImplVars, rtpsVars, extensionVars>>

\* set_qos on an enabled reader: get_qos() and q.check_immutability(&current_qos)
set_qos_get_qos(t) ==
    /\ task[t].pc = "get_qos"
    /\ task' = IF check_immutability(task[t].q, reader_qos)
               THEN [task EXCEPT ![t].current_qos = reader_qos, ![t].pc = "set_qos"]
               ELSE [task EXCEPT ![t].current_qos = reader_qos, ![t].pc = "done",
                                 ![t].ret = "ImmutablePolicy"]
    /\ last_call' = Step("set_qos_get_qos")
    /\ sent' = {}
    /\ UNCHANGED <<participant_alive, enabled, entityVars, ignoreVars, discoveryVars,
                   reader_enabled, reader_qos, announce_count, last_announced, calls,
                   facadeVars,
                   waitVars, publisherImplVars, rtpsVars, extensionVars>>

\* set_qos: reader_address.set_qos(q)
set_qos_set_qos(t) ==
    /\ task[t].pc = "set_qos"
    /\ reader_qos' = task[t].q
    /\ task' = [task EXCEPT ![t].events = Append(@, "set_qos"),
                            ![t].pc = IF task[t].is_enabled
                                      THEN "as_discovered_reader_data" ELSE "done",
                            ![t].ret = IF task[t].is_enabled THEN "None" ELSE "Ok"]
    /\ last_call' = Step("set_qos_set_qos")
    /\ sent' = {}
    /\ UNCHANGED <<participant_alive, enabled, entityVars, ignoreVars, discoveryVars,
                   reader_enabled, announce_count, last_announced, calls, facadeVars,
                   waitVars, publisherImplVars, rtpsVars, extensionVars>>

\* announce_reader: the reader builds its DiscoveredReaderData from its QoS
announce_reader(t) ==
    /\ task[t].pc = "as_discovered_reader_data"
    /\ task' = [task EXCEPT ![t].data = reader_qos, ![t].pc = "announce"]
    /\ last_call' = Step("announce_reader")
    /\ sent' = {}
    /\ UNCHANGED <<participant_alive, enabled, entityVars, ignoreVars, discoveryVars,
                   reader_enabled, reader_qos, announce_count, last_announced, calls,
                   facadeVars,
                   waitVars, publisherImplVars, rtpsVars, extensionVars>>

\* the participant writes the data to the SEDP subscriptions announcer and
\* sends the pending messages
announce_created_or_modified_data_reader(t) ==
    /\ participant_alive
    /\ task[t].pc = "announce"
    /\ announce_count' = announce_count + 1
    /\ last_announced' = task[t].data
    /\ task' = [task EXCEPT ![t].events = @ \o <<"write_w_timestamp", "send_message">>,
                            ![t].pc = "done", ![t].ret = "Ok"]
    /\ last_call' = Step("announce_created_or_modified_data_reader")
    /\ sent' = {}
    /\ UNCHANGED <<participant_alive, enabled, entityVars, ignoreVars, discoveryVars,
                   reader_enabled, reader_qos, calls, facadeVars,
                   waitVars, publisherImplVars, rtpsVars, extensionVars>>

(***************************************************************************)
(* DomainParticipantActor::set_default_topic_qos and the Topic facade.     *)
(***************************************************************************)
\* create_user_defined_topic that takes TopicQos::default() for QosKind::Default
create_user_defined_topic_initial_default(topic_name, qos) ==
    /\ participant_alive
    /\ LET topic_qos_ == IF qos.kind = "Default" THEN Qos_default ELSE qos.q
           unique == create_unique_topic_id(user_defined_topic_counter)
           handle == TopicHandle(unique.id)
       IN /\ user_defined_topic_counter' = unique.counter
          /\ user_defined_topic_list' =
                 MapInsert(user_defined_topic_list, handle,
                           [name |-> topic_name, type_name |-> "UserType",
                            qos |-> topic_qos_])
          /\ issued' = Issue(handle)
          /\ last_call' = Call("create_user_defined_topic", handle, qos, NoMessage, "Ok")
    /\ sent' = {}
    /\ UNCHANGED <<participant_alive, enabled, publisherVars, subscriberVars,
                   default_topic_qos,
                   ignoreVars, discoveryVars, readerVars, facadeVars,
                   waitVars, publisherImplVars, rtpsVars, extensionVars>>

create_user_defined_topic(topic_name, qos) ==
    /\ participant_alive
    /\ LET topic_qos_ == IF qos.kind = "Default" THEN default_topic_qos ELSE qos.q
           unique == create_unique_topic_id(user_defined_topic_counter)
           handle == TopicHandle(unique.id)
       IN /\ user_defined_topic_counter' = unique.counter
          /\ user_defined_topic_list' =
                 MapInsert(user_defined_topic_list, handle,
                           [name |-> topic_name, type_name |-> "UserType",
                            qos |-> topic_qos_])
          /\ issued' = Issue(handle)
          /\ last_call' = Call("create_user_defined_topic", handle, qos, NoMessage, "Ok")
    /\ sent' = {}
    /\ UNCHANGED <<participant_alive, enabled, publisherVars, subscriberVars,
                   default_topic_qos,
                   ignoreVars, discoveryVars, readerVars, facadeVars,
                   waitVars, publisherImplVars, rtpsVars, extensionVars>>

\* delete_user_defined_subscriber answering Ok for a handle it does not know
delete_user_defined_subscriber_unknown_ok(handle) ==
    /\ participant_alive
    /\ IF handle \in DOMAIN user_defined_subscriber_list
          /\ user_defined_subscriber_list[handle].data_reader_list # {}
       THEN /\ last_call' = Call("delete_user_defined_subscriber", handle, NoQos,
                                 NoMessage, "PreconditionNotMet")
            /\ UNCHANGED user_defined_subscriber_list
       ELSE /\ user_defined_subscriber_list' =
                   MapRemove(user_defined_subscriber_list, handle)
            /\ last_call' = Call("delete_user_defined_subscriber", handle, NoQos,
                                 NoMessage, "Ok")
    /\ sent' = {}
    /\ UNCHANGED <<participant_alive, enabled, user_defined_subscriber_counter,
                   default_subscriber_qos, publisherVars, topicVars, issued, ignoreVars,
                   discoveryVars, readerVars, facadeVars,
                   waitVars, publisherImplVars, rtpsVars, extensionVars>>

delete_user_defined_subscriber(handle) ==
    /\ participant_alive
    /\ IF handle \in DOMAIN user_defined_subscriber_list
       THEN IF user_defined_subscriber_list[handle].data_reader_list # {}
            THEN /\ last_call' = Call("delete_user_defined_subscriber", handle, NoQos,
                                      NoMessage, "PreconditionNotMet")
                 /\ UNCHANGED user_defined_subscriber_list
            ELSE /\ user_defined_subscriber_list' =
                        MapRemove(user_defined_subscriber_list, handle)
                 /\ last_call' = Call("delete_user_defined_subscriber", handle, NoQos,
                                      NoMessage, "Ok")
       ELSE /\ last_call' = Call("delete_user_defined_subscriber", handle, NoQos,
                                 NoMessage, "PreconditionNotMet")
            /\ UNCHANGED user_defined_subscriber_list
    /\ sent' = {}
    /\ UNCHANGED <<participant_alive, enabled, user_defined_subscriber_counter,
                   default_subscriber_qos, publisherVars, topicVars, issued, ignoreVars,
                   discoveryVars, readerVars, facadeVars,
                   waitVars, publisherImplVars, rtpsVars, extensionVars>>

\* PublisherActor::lookup_datawriter(topic_name).is_some()
lookup_datawriter(publisher, topic_name) ==
    \E w \in user_defined_publisher_list[publisher].data_writer_list :
        w.topic_name = topic_name

\* SubscriberActor::lookup_datareader(topic_name).is_some()
lookup_datareader(subscriber, topic_name) ==
    \E r \in user_defined_subscriber_list[subscriber].data_reader_list :
        r.topic_name = topic_name

\* delete_user_defined_topic without the loop over the subscribers
delete_user_defined_topic_readers_not_asked(handle) ==
    /\ participant_alive
    /\ IF handle \in DOMAIN user_defined_topic_list
       THEN LET topic_name == user_defined_topic_list[handle].name
            IN IF \E publisher \in DOMAIN user_defined_publisher_list :
                      lookup_datawriter(publisher, topic_name)
               THEN /\ last_call' = Call("delete_user_defined_topic", handle, NoQos,
                                         NoMessage, "PreconditionNotMet")
                    /\ UNCHANGED user_defined_topic_list
               ELSE /\ user_defined_topic_list' = MapRemove(user_defined_topic_list, handle)
                    /\ last_call' = Call("delete_user_defined_topic", handle, NoQos,
                                         NoMessage, "Ok")
       ELSE /\ last_call' = Call("delete_user_defined_topic", handle, NoQos,
                                 NoMessage, "PreconditionNotMet")
            /\ UNCHANGED user_defined_topic_list
    /\ sent' = {}
    /\ UNCHANGED <<participant_alive, enabled, publisherVars, subscriberVars,
                   user_defined_topic_counter, default_topic_qos, issued, ignoreVars,
                   discoveryVars, readerVars, facadeVars,
                   waitVars, publisherImplVars, rtpsVars, extensionVars>>

delete_user_defined_topic(handle) ==
    /\ participant_alive
    /\ IF handle \in DOMAIN user_defined_topic_list
       THEN LET topic_name == user_defined_topic_list[handle].name
            IN IF \E publisher \in DOMAIN user_defined_publisher_list :
                      lookup_datawriter(publisher, topic_name)
               THEN /\ last_call' = Call("delete_user_defined_topic", handle, NoQos,
                                         NoMessage, "PreconditionNotMet")
                    /\ UNCHANGED user_defined_topic_list
               ELSE IF \E subscriber \in DOMAIN user_defined_subscriber_list :
                           lookup_datareader(subscriber, topic_name)
               THEN /\ last_call' = Call("delete_user_defined_topic", handle, NoQos,
                                         NoMessage, "PreconditionNotMet")
                    /\ UNCHANGED user_defined_topic_list
               ELSE /\ user_defined_topic_list' = MapRemove(user_defined_topic_list, handle)
                    /\ last_call' = Call("delete_user_defined_topic", handle, NoQos,
                                         NoMessage, "Ok")
       ELSE /\ last_call' = Call("delete_user_defined_topic", handle, NoQos,
                                 NoMessage, "PreconditionNotMet")
            /\ UNCHANGED user_defined_topic_list
    /\ sent' = {}
    /\ UNCHANGED <<participant_alive, enabled, publisherVars, subscriberVars,
                   user_defined_topic_counter, default_topic_qos, issued, ignoreVars,
                   discoveryVars, readerVars, facadeVars,
                   waitVars, publisherImplVars, rtpsVars, extensionVars>>

\* delete_user_defined_publisher of a listed publisher, up to its await: the
\* publisher actor answers the data_writer_list request from its mailbox
delete_user_defined_publisher_data_writer_list(handle) ==
    /\ participant_alive
    /\ awaiting = NoRequest
    /\ handle \in DOMAIN user_defined_publisher_list
    /\ awaiting' = [op |-> "delete_user_defined_publisher", handle |-> handle,
                    reply |-> user_defined_publisher_list[handle].data_writer_list]
    /\ last_call' = Call("data_writer_list", handle, NoQos, NoMessage, "Ok")
    /\ UNCHANGED <<user_defined_publisher_list, user_defined_subscriber_list>>
    /\ sent' = {}
    /\ UNCHANGED <<participant_alive, enabled, user_defined_publisher_counter, default_publisher_qos,
                   user_defined_subscriber_counter, default_subscriber_qos, topicVars, issued, ignoreVars,
                   discoveryVars, readerVars, facadeVars, waitVars, publisherImplVars,
                   rtpsVars, reader_samples, delivered, listenerVars, converted,
                   protocolVars, lockVars>>

\* delete_user_defined_publisher from the reply on: the handler resumes
delete_user_defined_publisher_resumed ==
    /\ awaiting.op = "delete_user_defined_publisher"
    /\ awaiting' = NoRequest
    /\ IF awaiting.reply # {}
       THEN /\ last_call' = Call("delete_user_defined_publisher", awaiting.handle, NoQos,
                                 NoMessage, "PreconditionNotMet")
            /\ UNCHANGED user_defined_publisher_list
       ELSE /\ user_defined_publisher_list' =
                   MapRemove(user_defined_publisher_list, awaiting.handle)
            /\ last_call' = Call("delete_user_defined_publisher", awaiting.handle, NoQos,
                                 NoMessage, "Ok")
    /\ UNCHANGED user_defined_subscriber_list
    /\ sent' = {}
    /\ UNCHANGED <<participant_alive, enabled, user_defined_publisher_counter, default_publisher_qos,
                   user_defined_subscriber_counter, default_subscriber_qos, topicVars, issued, ignoreVars,
                   discoveryVars, readerVars, facadeVars, waitVars, publisherImplVars,
                   rtpsVars, reader_samples, delivered, listenerVars, converted,
                   protocolVars, lockVars>>

\* delete_user_defined_subscriber of a listed subscriber, up to its await: the
\* subscriber actor answers the is_empty request from its mailbox
delete_user_defined_subscriber_is_empty(handle) ==
    /\ participant_alive
    /\ awaiting = NoRequest
    /\ handle \in DOMAIN user_defined_subscriber_list
    /\ awaiting' = [op |-> "delete_user_defined_subscriber", handle |-> handle,
                    reply |-> user_defined_subscriber_list[handle].data_reader_list = {}]
    /\ last_call' = Call("is_empty", handle, NoQos, NoMessage, "Ok")
    /\ UNCHANGED <<user_defined_publisher_list, user_defined_subscriber_list>>
    /\ sent' = {}
    /\ UNCHANGED <<participant_alive, enabled, user_defined_publisher_counter, default_publisher_qos,
                   user_defined_subscriber_counter, default_subscriber_qos, topicVars, issued, ignoreVars,
                   discoveryVars, readerVars, facadeVars, waitVars, publisherImplVars,
                   rtpsVars, reader_samples, delivered, listenerVars, converted,
                   protocolVars, lockVars>>

\* delete_user_defined_subscriber from the reply on: the handler resumes
delete_user_defined_subscriber_resumed ==
    /\ awaiting.op = "delete_user_defined_subscriber"
    /\ awaiting' = NoRequest
    /\ IF ~awaiting.reply
       THEN /\ last_call' = Call("delete_user_defined_subscriber", awaiting.handle, NoQos,
                                 NoMessage, "PreconditionNotMet")
            /\ UNCHANGED user_defined_subscriber_list
       ELSE /\ user_defined_subscriber_list' =
                   MapRemove(user_defined_subscriber_list, awaiting.handle)
            /\ last_call' = Call("delete_user_defined_subscriber", awaiting.handle, NoQos,
                                 NoMessage, "Ok")
    /\ UNCHANGED user_defined_publisher_list
    /\ sent' = {}
    /\ UNCHANGED <<participant_alive, enabled, user_defined_publisher_counter, default_publisher_qos,
                   user_defined_subscriber_counter, default_subscriber_qos, topicVars, issued, ignoreVars,
                   discoveryVars, readerVars, facadeVars, waitVars, publisherImplVars,
                   rtpsVars, reader_samples, delivered, listenerVars, converted,
                   protocolVars, lockVars>>

set_default_publisher_qos(qos) ==
    /\ participant_alive
    /\ default_publisher_qos' = IF qos.kind = "Default" THEN PublisherQos_default ELSE qos.q
    /\ last_call' = Call("set_default_publisher_qos", NoHandle, qos, NoMessage, "Ok")
    /\ sent' = {}
    /\ UNCHANGED <<participant_alive, enabled, user_defined_publisher_list,
                   user_defined_publisher_counter, subscriberVars, topicVars, issued,
                   ignoreVars, discoveryVars, readerVars, facadeVars,
                   waitVars, publisherImplVars, rtpsVars, extensionVars>>

set_default_subscriber_qos(qos) ==
    /\ participant_alive
    /\ default_subscriber_qos' = IF qos.kind = "Default" THEN SubscriberQos_default
                                 ELSE qos.q
    /\ last_call' = Call("set_default_subscriber_qos", NoHandle, qos, NoMessage, "Ok")
    /\ sent' = {}
    /\ UNCHANGED <<participant_alive, enabled, user_defined_subscriber_list,
                   user_defined_subscriber_counter, publisherVars, topicVars, issued,
                   ignoreVars, discoveryVars, readerVars, facadeVars,
                   waitVars, publisherImplVars, rtpsVars, extensionVars>>

\* set_default_topic_qos without the consistency check
set_default_topic_qos_unchecked(qos) ==
    /\ participant_alive
    /\ default_topic_qos' = IF qos.kind = "Default" THEN Qos_default ELSE qos.q
    /\ last_call' = Call("set_default_topic_qos", NoHandle, qos, NoMessage, "Ok")
    /\ sent' = {}
    /\ UNCHANGED <<participant_alive, enabled, publisherVars, subscriberVars,
                   user_defined_topic_list, user_defined_topic_counter, issued, ignoreVars,
                   discoveryVars, readerVars, facadeVars,
                   waitVars, publisherImplVars, rtpsVars, extensionVars>>

set_default_topic_qos(qos) ==
    /\ participant_alive
    /\ IF qos.kind = "Specific" /\ ~is_consistent(qos.q)
       THEN /\ last_call' = Call("set_default_topic_qos", NoHandle, qos, NoMessage,
                                 "InconsistentPolicy")
            /\ UNCHANGED default_topic_qos
       ELSE /\ default_topic_qos' = IF qos.kind = "Default" THEN Qos_default ELSE qos.q
            /\ last_call' = Call("set_default_topic_qos", NoHandle, qos, NoMessage, "Ok")
    /\ sent' = {}
    /\ UNCHANGED <<participant_alive, enabled, publisherVars, subscriberVars,
                   user_defined_topic_list, user_defined_topic_counter, issued, ignoreVars,
                   discoveryVars, readerVars, facadeVars,
                   waitVars, publisherImplVars, rtpsVars, extensionVars>>

\* Topic::set_qos(qos: Option<TopicQos>): None is the default QoS
Topic_set_qos(qos) ==
    /\ LET q == IF qos.kind = "Default" THEN Qos_default ELSE qos.q
       IN IF ~is_consistent(q)
          THEN /\ last_call' = Call("Topic::set_qos", NoHandle, qos, NoMessage,
                                    "InconsistentPolicy")
               /\ UNCHANGED topic_qos
          ELSE IF ~rtps_topic_valid
          THEN /\ last_call' = Call("Topic::set_qos", NoHandle, qos, NoMessage,
                                    "AlreadyDeleted")
               /\ UNCHANGED topic_qos
          ELSE /\ topic_qos' = q
               /\ last_call' = Call("Topic::set_qos", NoHandle, qos, NoMessage, "Ok")
    /\ sent' = {}
    /\ UNCHANGED <<participant_alive, enabled, entityVars, ignoreVars, discoveryVars,
                   readerVars, rtps_topic_valid, waitVars, publisherImplVars, rtpsVars,
                   extensionVars>>

\* the topic behind the Topic handle is deleted: MaybeValidRef::get gives None
MaybeValidRef_invalidate ==
    /\ rtps_topic_valid
    /\ rtps_topic_valid' = FALSE
    /\ last_call' = Call("MaybeValidRef::invalidate", NoHandle, NoQos, NoMessage, "Ok")
    /\ sent' = {}
    /\ UNCHANGED <<participant_alive, enabled, entityVars, ignoreVars, discoveryVars,
                   readerVars, topic_qos, waitVars, publisherImplVars, rtpsVars,
                   extensionVars>>

(***************************************************************************)
(* DataReaderAsync::wait_for_historical_data: tokio::time::timeout around  *)
(* a loop of is_historical_data_received requests to the reader actor.     *)
(* Every poll of the timeout future polls the loop first and the deadline  *)
(* after it.  The task is polled when it has been woken: by a reply of the *)
(* reader actor or by the timer, which fires once, at the deadline.  Time  *)
(* does not advance while a woken task waits for its poll.                 *)
(***************************************************************************)
WaitErrors == {"NotEnabled", "AlreadyDeleted"}

\* the reader actor's answer to is_historical_data_received
is_historical_data_received ==
    IF ~reader_enabled THEN "NotEnabled"
    ELSE IF historical_data_received THEN "true" ELSE "false"

\* the loop with no deadline around it
wait_for_historical_data_loop_unbounded(deadline, polled) ==
    IF ~reader_alive
    THEN [IdleWait EXCEPT !.pc = "done", !.deadline = deadline,
                          !.polled = polled \cup {"AlreadyDeleted"},
                          !.ret = "AlreadyDeleted", !.returned_at = now]
    ELSE [IdleWait EXCEPT !.pc = "pending", !.deadline = deadline, !.polled = polled,
                          !.request = TRUE]

\* the loop sends the next request; the deadline is looked at when the loop is pending
wait_for_historical_data_loop(deadline, polled) ==
    IF ~reader_alive
    THEN [IdleWait EXCEPT !.pc = "done", !.deadline = deadline,
                          !.polled = polled \cup {"AlreadyDeleted"},
                          !.ret = "AlreadyDeleted", !.returned_at = now]
    ELSE IF now >= deadline
    THEN [IdleWait EXCEPT !.pc = "done", !.deadline = deadline, !.polled = polled,
                          !.ret = "Timeout", !.returned_at = now]
    ELSE [IdleWait EXCEPT !.pc = "pending", !.deadline = deadline, !.polled = polled,
                          !.request = TRUE]

\* the call and the first poll of its future
wait_for_historical_data(max_wait) ==
    /\ wait.pc \in {"idle", "done"}
    /\ calls < MaxCalls
    /\ calls' = calls + 1
    /\ wait' = wait_for_historical_data_loop(now + max_wait, {})
    /\ last_call' = Step("wait_for_historical_data")
    /\ sent' = {}
    /\ UNCHANGED <<participant_alive, enabled, entityVars, ignoreVars, discoveryVars,
                   reader_enabled, reader_qos, task, announce_count, last_announced,
                   facadeVars, now, historical_data_received, reader_alive,
                   publisherImplVars, rtpsVars, extensionVars>>

\* the reader actor serves the request and wakes the task with its reply
DataReaderActor_is_historical_data_received ==
    /\ wait.pc = "pending"
    /\ wait.request
    /\ reader_alive
    /\ wait' = [wait EXCEPT !.request = FALSE, !.reply = is_historical_data_received,
                            !.woken = TRUE]
    /\ last_call' = Step("is_historical_data_received")
    /\ sent' = {}
    /\ UNCHANGED <<participant_alive, enabled, entityVars, ignoreVars, discoveryVars,
                   readerVars, facadeVars, now, historical_data_received, reader_alive,
                   publisherImplVars, rtpsVars, extensionVars>>

\* a poll that never looks at the deadline
wait_for_historical_data_poll_unbounded ==
    /\ wait.pc = "pending"
    /\ wait.woken
    /\ wait' =
         IF wait.reply = "true"
         THEN [wait EXCEPT !.pc = "done", !.reply = "None", !.woken = FALSE,
                           !.polled = @ \cup {"true"}, !.ret = "Ok", !.returned_at = now]
         ELSE IF wait.reply \in WaitErrors
         THEN [wait EXCEPT !.pc = "done", !.reply = "None", !.woken = FALSE,
                           !.polled = @ \cup {wait.reply}, !.ret = wait.reply,
                           !.returned_at = now]
         ELSE IF wait.reply = "false"
         THEN wait_for_historical_data_loop_unbounded(wait.deadline, wait.polled \cup {"false"})
         ELSE [wait EXCEPT !.woken = FALSE]
    /\ last_call' = Step("wait_for_historical_data_poll")
    /\ sent' = {}
    /\ UNCHANGED <<participant_alive, enabled, entityVars, ignoreVars, discoveryVars,
                   readerVars, facadeVars, now, historical_data_received, reader_alive,
                   publisherImplVars, rtpsVars, extensionVars>>

\* a poll of the woken task: the reply, if there is one, decides; else the deadline
wait_for_historical_data_poll ==
    /\ wait.pc = "pending"
    /\ wait.woken
    /\ wait' =
         IF wait.reply = "true"
         THEN [wait EXCEPT !.pc = "done", !.reply = "None", !.woken = FALSE,
                           !.polled = @ \cup {"true"}, !.ret = "Ok", !.returned_at = now]
         ELSE IF wait.reply \in WaitErrors
         THEN [wait EXCEPT !.pc = "done", !.reply = "None", !.woken = FALSE,
                           !.polled = @ \cup {wait.reply}, !.ret = wait.reply,
                           !.returned_at = now]
         ELSE IF wait.reply = "false"
         THEN wait_for_historical_data_loop(wait.deadline, wait.polled \cup {"false"})
         ELSE IF now >= wait.deadline
         THEN [wait EXCEPT !.pc = "done", !.request = FALSE, !.woken = FALSE,
                           !.ret = "Timeout", !.returned_at = now]
         ELSE [wait EXCEPT !.woken = FALSE]
    /\ last_call' = Step("wait_for_historical_data_poll")
    /\ sent' = {}
    /\ UNCHANGED <<participant_alive, enabled, entityVars, ignoreVars, discoveryVars,
                   readerVars, facadeVars, now, historical_data_received, reader_alive,
                   publisherImplVars, rtpsVars, extensionVars>>

\* the clock advances; the timer of a pending call fires at its deadline
tokio_time_advance ==
    /\ now < MaxNow
    /\ ~(wait.pc = "pending" /\ wait.woken)
    /\ now' = now + 1
    /\ wait' = IF wait.pc = "pending" /\ now + 1 = wait.deadline
               THEN [wait EXCEPT !.woken = TRUE]
               ELSE wait
    /\ last_call' = Step("tokio_time_advance")
    /\ sent' = {}
    /\ UNCHANGED <<participant_alive, enabled, entityVars, ignoreVars, discoveryVars,
                   readerVars, facadeVars, historical_data_received, reader_alive,
                   publisherImplVars, rtpsVars, extensionVars>>

\* the reader has received the historical data of its matched writers
DataReaderActor_historical_data_received ==
    /\ reader_alive
    /\ reader_enabled
    /\ ~historical_data_received
    /\ historical_data_received' = TRUE
    /\ last_call' = Step("historical_data_received")
    /\ sent' = {}
    /\ UNCHANGED <<participant_alive, enabled, entityVars, ignoreVars, discoveryVars,
                   readerVars, facadeVars, now, wait, reader_alive,
                   publisherImplVars, rtpsVars, extensionVars>>

\* the reader actor is deleted: a request it has not served fails
delete_datareader ==
    /\ reader_alive
    /\ reader_alive' = FALSE
    /\ wait' = IF wait.pc = "pending" /\ wait.request
               THEN [wait EXCEPT !.request = FALSE, !.reply = "AlreadyDeleted",
                                 !.woken = TRUE]
               ELSE wait
    /\ last_call' = Step("delete_datareader")
    /\ sent' = {}
    /\ UNCHANGED <<participant_alive, enabled, entityVars, ignoreVars, discoveryVars,
                   readerVars, facadeVars, now, historical_data_received,
                   publisherImplVars, rtpsVars, extensionVars>>

(***************************************************************************)
(* The Publisher handle (publication/publisher.rs).  A Publisher holds a   *)
(* Weak<PublisherImpl>, a DataWriter a Weak<DataWriterImpl>; the only      *)
(* owner of a DataWriterImpl is its publisher's data_writer_list.  Writers *)
(* are numbered in the order of their creation.                            *)
(***************************************************************************)
DataWriterArgs(publisher, writer) ==
    [kind |-> "DataWriter", publisher |-> publisher, writer |-> writer]

\* Publisher::publisher_impl: self.inner.upgrade()
publisher_impl_upgrade(publisher) == publisher_impl[publisher].alive

\* DataWriter::data_writer_impl: the upgrade succeeds while a list owns the writer
data_writer_impl_upgrade(writer) ==
    \E publisher \in PublisherNames :
        /\ publisher_impl[publisher].alive
        /\ \E i \in DOMAIN publisher_impl[publisher].data_writer_list :
               publisher_impl[publisher].data_writer_list[i] = writer

\* iter().position(|x| Arc::ptr_eq(x, &data_writer_impl)): {} is None, {i} is Some(i)
position(data_writer_list, writer) ==
    LET found == {i \in DOMAIN data_writer_list : data_writer_list[i] = writer}
    IN IF found = {} THEN {} ELSE {CHOOSE i \in found : \A j \in found : i <= j}

\* Vec::remove(index)
Vec_remove(list, index) == SubSeq(list, 1, index - 1) \o SubSeq(list, index + 1, Len(list))

Publisher_create_datawriter(publisher, qos) ==
    /\ IF ~publisher_impl_upgrade(publisher)
       THEN /\ last_call' = Call("Publisher::create_datawriter", NoHandle, qos,
                                 DataWriterArgs(publisher, 0), "None")
            /\ UNCHANGED publisherImplVars
       ELSE LET default_data_writer_qos == publisher_impl[publisher].default_data_writer_qos
                data_writer_qos == IF qos.kind = "Specific" THEN qos.q
                                   ELSE default_data_writer_qos
                writer == Cardinality(DOMAIN data_writer_impl) + 1
            IN /\ data_writer_impl' =
                      MapInsert(data_writer_impl, writer,
                                [parent |-> publisher, qos |-> data_writer_qos])
               /\ publisher_impl' =
                      [publisher_impl EXCEPT ![publisher].data_writer_list = Append(@, writer)]
               /\ last_call' = Call("Publisher::create_datawriter", NoHandle, qos,
                                    DataWriterArgs(publisher, writer), "Some")
    /\ sent' = {}
    /\ UNCHANGED <<participant_alive, enabled, entityVars, ignoreVars, discoveryVars,
                   readerVars, facadeVars, waitVars, rtpsVars, extensionVars>>

\* delete_datawriter that takes the front of the list for the writer it was given
Publisher_delete_datawriter_front(publisher, writer) ==
    /\ IF ~publisher_impl_upgrade(publisher) \/ ~data_writer_impl_upgrade(writer)
       THEN /\ last_call' = Call("Publisher::delete_datawriter", NoHandle, NoQos,
                                 DataWriterArgs(publisher, writer), "AlreadyDeleted")
            /\ UNCHANGED publisherImplVars
       ELSE IF publisher_impl[publisher].data_writer_list = <<>>
       THEN /\ last_call' = Call("Publisher::delete_datawriter", NoHandle, NoQos,
                                 DataWriterArgs(publisher, writer), "PreconditionNotMet")
            /\ UNCHANGED publisherImplVars
       ELSE /\ publisher_impl' =
                   [publisher_impl EXCEPT ![publisher].data_writer_list = Vec_remove(@, 1)]
            /\ last_call' = Call("Publisher::delete_datawriter", NoHandle, NoQos,
                                 DataWriterArgs(publisher, writer), "Ok")
            /\ UNCHANGED data_writer_impl
    /\ sent' = {}
    /\ UNCHANGED <<participant_alive, enabled, entityVars, ignoreVars, discoveryVars,
                   readerVars, facadeVars, waitVars, rtpsVars, extensionVars>>

Publisher_delete_datawriter(publisher, writer) ==
    /\ IF ~publisher_impl_upgrade(publisher) \/ ~data_writer_impl_upgrade(writer)
       THEN /\ last_call' = Call("Publisher::delete_datawriter", NoHandle, NoQos,
                                 DataWriterArgs(publisher, writer), "AlreadyDeleted")
            /\ UNCHANGED publisherImplVars
       ELSE LET data_writer_list == publisher_impl[publisher].data_writer_list
                data_writer_index == position(data_writer_list, writer)
            IN IF data_writer_index = {}
               THEN /\ last_call' = Call("Publisher::delete_datawriter", NoHandle, NoQos,
                                         DataWriterArgs(publisher, writer),
                                         "PreconditionNotMet")
                    /\ UNCHANGED publisherImplVars
               ELSE /\ publisher_impl' =
                           [publisher_impl EXCEPT ![publisher].data_writer_list =
                               Vec_remove(@, CHOOSE i \in data_writer_index : TRUE)]
                    /\ last_call' = Call("Publisher::delete_datawriter", NoHandle, NoQos,
                                         DataWriterArgs(publisher, writer), "Ok")
                    /\ UNCHANGED data_writer_impl
    /\ sent' = {}
    /\ UNCHANGED <<participant_alive, enabled, entityVars, ignoreVars, discoveryVars,
                   readerVars, facadeVars, waitVars, rtpsVars, extensionVars>>

\* the participant deletes the publisher: its PublisherImpl and its writers are dropped
delete_publisher(publisher) ==
    /\ publisher_impl[publisher].alive
    /\ publisher_impl' = [publisher_impl EXCEPT ![publisher].alive = FALSE,
                                                ![publisher].data_writer_list = <<>>]
    /\ last_call' = Call("delete_publisher", NoHandle, NoQos,
                         DataWriterArgs(publisher, 0), "Ok")
    /\ UNCHANGED data_writer_impl
    /\ sent' = {}
    /\ UNCHANGED <<participant_alive, enabled, entityVars, ignoreVars, discoveryVars,
                   readerVars, facadeVars, waitVars, rtpsVars, extensionVars>>

\* set_default_datawriter_qos(QosKind<DataWriterQos>)
set_default_datawriter_qos(publisher, qos) ==
    /\ IF ~publisher_impl_upgrade(publisher)
       THEN /\ last_call' = Call("set_default_datawriter_qos", NoHandle, qos,
                                 DataWriterArgs(publisher, 0), "AlreadyDeleted")
            /\ UNCHANGED publisherImplVars
       ELSE IF qos.kind = "Specific" /\ ~is_consistent(qos.q)
       THEN /\ last_call' = Call("set_default_datawriter_qos", NoHandle, qos,
                                 DataWriterArgs(publisher, 0), "InconsistentPolicy")
            /\ UNCHANGED publisherImplVars
       ELSE /\ publisher_impl' =
                   [publisher_impl EXCEPT ![publisher].default_data_writer_qos =
                       IF qos.kind = "Default" THEN Qos_default ELSE qos.q]
            /\ last_call' = Call("set_default_datawriter_qos", NoHandle, qos,
                                 DataWriterArgs(publisher, 0), "Ok")
            /\ UNCHANGED data_writer_impl
    /\ sent' = {}
    /\ UNCHANGED <<participant_alive, enabled, entityVars, ignoreVars, discoveryVars,
                   readerVars, facadeVars, waitVars, rtpsVars, extensionVars>>

get_default_datawriter_qos(publisher) == publisher_impl[publisher].default_data_writer_qos

(***************************************************************************)
(* Publisher::create_datawriter and Publisher::delete_datawriter called by *)
(* threads that share the Publisher "pub1", one step per lock() and one per *)
(* statement made under a lock.  A guard that lives in a temporary is       *)
(* dropped at the end of its statement, a guard bound by let at the end of  *)
(* the function.                                                            *)
(***************************************************************************)
SharedPublisher == "pub1"

\* the writers the application holds a DataWriter handle of
HeldDataWriters == UNION {publisher_thread[t].created : t \in PublisherThreads}

\* the mutex a thread is about to lock
Wanted(t) ==
    CASE publisher_thread[t].pc = "lock default_data_writer_qos" -> "default_data_writer_qos"
      [] publisher_thread[t].pc = "lock protocol_publisher" -> "protocol_publisher"
      [] publisher_thread[t].pc = "lock data_writer_list" -> "data_writer_list"
      [] OTHER -> "None"

Held(t) == {m \in Mutexes : publisher_mutex[m] = Some(t)}

\* let publisher_impl = self.publisher_impl().ok()?;
create_datawriter_call(t) ==
    /\ publisher_thread[t].pc = "idle"
    /\ IF ~publisher_impl_upgrade(SharedPublisher)
       THEN /\ last_call' = Call("Publisher::create_datawriter", NoHandle, Default,
                                 DataWriterArgs(SharedPublisher, 0), "None")
            /\ UNCHANGED publisher_thread
       ELSE /\ publisher_thread' =
                   [publisher_thread EXCEPT ![t].pc = "lock default_data_writer_qos",
                                            ![t].op = "create_datawriter",
                                            ![t].writer = 0]
            /\ last_call' = Call("publisher_impl", NoHandle, Default,
                                 [kind |-> "thread", by |-> t], "Ok")
    /\ sent' = {}
    /\ UNCHANGED <<participant_alive, enabled, entityVars, ignoreVars, discoveryVars,
                   readerVars, facadeVars, waitVars, publisherImplVars, rtpsVars,
                   reader_samples, delivered, listenerVars, converted, awaiting,
                   protocolVars, publisher_mutex>>

\* Mutex::lock of create_datawriter (default_data_writer_qos, protocol_publisher,
\* data_writer_list) and of delete_datawriter (data_writer_list): blocks while the
\* mutex is held
mutex_lock(t) ==
    /\ Wanted(t) \in Mutexes
    /\ publisher_mutex[Wanted(t)] = None
    /\ publisher_mutex' = [publisher_mutex EXCEPT ![Wanted(t)] = Some(t)]
    /\ publisher_thread' =
           [publisher_thread EXCEPT ![t].pc =
               CASE Wanted(t) = "default_data_writer_qos" -> "lock protocol_publisher"
                 [] Wanted(t) = "protocol_publisher" -> "create_writer"
                 [] OTHER -> IF publisher_thread[t].op = "create_datawriter"
                             THEN "push" ELSE "remove"]
    /\ last_call' = Call("lock", NoHandle, NoQos,
                         [kind |-> "thread", by |-> t, mutex |-> Wanted(t)], "Ok")
    /\ sent' = {}
    /\ UNCHANGED <<participant_alive, enabled, entityVars, ignoreVars, discoveryVars,
                   readerVars, facadeVars, waitVars, publisherImplVars, rtpsVars,
                   reader_samples, delivered, listenerVars, converted, awaiting,
                   protocolVars>>

\* protocol_publisher.lock().unwrap().create_writer(..) and DataWriterImpl::new
create_writer(t) ==
    /\ publisher_thread[t].pc = "create_writer"
    /\ LET default_data_writer_qos ==
               publisher_impl[SharedPublisher].default_data_writer_qos
           writer == Cardinality(DOMAIN data_writer_impl) + 1
       IN /\ data_writer_impl' =
                 MapInsert(data_writer_impl, writer,
                           [parent |-> SharedPublisher, qos |-> default_data_writer_qos])
          /\ publisher_thread' =
                 [publisher_thread EXCEPT ![t].pc = "lock data_writer_list",
                                          ![t].writer = writer]
    /\ publisher_mutex' = [publisher_mutex EXCEPT !["protocol_publisher"] = None]
    /\ last_call' = Call("create_writer", NoHandle, NoQos,
                         [kind |-> "thread", by |-> t], "Ok")
    /\ sent' = {}
    /\ UNCHANGED <<participant_alive, enabled, entityVars, ignoreVars, discoveryVars,
                   readerVars, facadeVars, waitVars, publisher_impl, rtpsVars,
                   reader_samples, delivered, listenerVars, converted, awaiting,
                   protocolVars>>

\* publisher_impl.data_writer_list.lock().unwrap().push(data_writer_impl.clone());
push(t) ==
    /\ publisher_thread[t].pc = "push"
    /\ publisher_impl' =
           [publisher_impl EXCEPT ![SharedPublisher].data_writer_list =
               Append(@, publisher_thread[t].writer)]
    /\ publisher_mutex' = [publisher_mutex EXCEPT !["data_writer_list"] = None]
    /\ publisher_thread' = [publisher_thread EXCEPT ![t].pc = "return"]
    /\ last_call' = Call("push", NoHandle, NoQos, [kind |-> "thread", by |-> t], "Ok")
    /\ sent' = {}
    /\ UNCHANGED <<participant_alive, enabled, entityVars, ignoreVars, discoveryVars,
                   readerVars, facadeVars, waitVars, data_writer_impl, rtpsVars,
                   reader_samples, delivered, listenerVars, converted, awaiting,
                   protocolVars>>

\* Some(data_writer): the guard of default_data_writer_qos is dropped
create_datawriter_return(t) ==
    /\ publisher_thread[t].pc = "return"
    /\ publisher_mutex' = [publisher_mutex EXCEPT !["default_data_writer_qos"] = None]
    /\ publisher_thread' =
           [publisher_thread EXCEPT ![t].pc = "idle",
                                    ![t].created = @ \cup {publisher_thread[t].writer}]
    /\ last_call' = Call("Publisher::create_datawriter", NoHandle, Default,
                         DataWriterArgs(SharedPublisher, publisher_thread[t].writer),
                         "Some")
    /\ sent' = {}
    /\ UNCHANGED <<participant_alive, enabled, entityVars, ignoreVars, discoveryVars,
                   readerVars, facadeVars, waitVars, publisherImplVars, rtpsVars,
                   reader_samples, delivered, listenerVars, converted, awaiting,
                   protocolVars>>

\* self.publisher_impl()? and a_datawriter.data_writer_impl()?; a_datawriter is a
\* &mut borrow, so no other thread is inside a call with the same DataWriter
delete_datawriter_call(t, writer) ==
    /\ publisher_thread[t].pc = "idle"
    /\ writer \in HeldDataWriters
    /\ \A u \in PublisherThreads :
           publisher_thread[u].op = "delete_datawriter" /\ publisher_thread[u].pc # "idle"
               => publisher_thread[u].writer # writer
    /\ IF ~publisher_impl_upgrade(SharedPublisher) \/ ~data_writer_impl_upgrade(writer)
       THEN /\ last_call' = Call("Publisher::delete_datawriter", NoHandle, NoQos,
                                 DataWriterArgs(SharedPublisher, writer), "AlreadyDeleted")
            /\ UNCHANGED publisher_thread
       ELSE /\ publisher_thread' =
                   [publisher_thread EXCEPT ![t].pc = "lock data_writer_list",
                                            ![t].op = "delete_datawriter",
                                            ![t].writer = writer]
            /\ last_call' = Call("data_writer_impl", NoHandle, NoQos,
                                 [kind |-> "thread", by |-> t], "Ok")
    /\ sent' = {}
    /\ UNCHANGED <<participant_alive, enabled, entityVars, ignoreVars, discoveryVars,
                   readerVars, facadeVars, waitVars, publisherImplVars, rtpsVars,
                   reader_samples, delivered, listenerVars, converted, awaiting,
                   protocolVars, publisher_mutex>>

\* delete_datawriter that removes the front of the list
delete_datawriter_remove_front(t) ==
    /\ publisher_thread[t].pc = "remove"
    /\ LET writer == publisher_thread[t].writer
           data_writer_list == publisher_impl[SharedPublisher].data_writer_list
       IN IF data_writer_list = <<>>
          THEN /\ last_call' = Call("Publisher::delete_datawriter", NoHandle, NoQos,
                                    DataWriterArgs(SharedPublisher, writer),
                                    "PreconditionNotMet")
               /\ publisher_thread' = [publisher_thread EXCEPT ![t].pc = "idle"]
               /\ UNCHANGED publisher_impl
          ELSE /\ publisher_impl' =
                      [publisher_impl EXCEPT ![SharedPublisher].data_writer_list =
                          Vec_remove(@, 1)]
               /\ publisher_thread' =
                      [publisher_thread EXCEPT ![t].pc = "idle",
                                               ![t].deleted = @ \cup {writer}]
               /\ last_call' = Call("Publisher::delete_datawriter", NoHandle, NoQos,
                                    DataWriterArgs(SharedPublisher, writer), "Ok")
    /\ publisher_mutex' = [publisher_mutex EXCEPT !["data_writer_list"] = None]
    /\ sent' = {}
    /\ UNCHANGED <<participant_alive, enabled, entityVars, ignoreVars, discoveryVars,
                   readerVars, facadeVars, waitVars, data_writer_impl, rtpsVars,
                   reader_samples, delivered, listenerVars, converted, awaiting,
                   protocolVars>>

\* iter().position(..).ok_or(PreconditionNotMet)?; data_writer_list.remove(index);
\* Ok(()): the guard of data_writer_list is dropped on either return
delete_datawriter_remove(t) ==
    /\ publisher_thread[t].pc = "remove"
    /\ LET writer == publisher_thread[t].writer
           data_writer_list == publisher_impl[SharedPublisher].data_writer_list
           data_writer_index == position(data_writer_list, writer)
       IN IF data_writer_index = {}
          THEN /\ last_call' = Call("Publisher::delete_datawriter", NoHandle, NoQos,
                                    DataWriterArgs(SharedPublisher, writer),
                                    "PreconditionNotMet")
               /\ publisher_thread' = [publisher_thread EXCEPT ![t].pc = "idle"]
               /\ UNCHANGED publisher_impl
          ELSE /\ publisher_impl' =
                      [publisher_impl EXCEPT ![SharedPublisher].data_writer_list =
                          Vec_remove(@, CHOOSE i \in data_writer_index : TRUE)]
               /\ publisher_thread' =
                      [publisher_thread EXCEPT ![t].pc = "idle",
                                               ![t].deleted = @ \cup {writer}]
               /\ last_call' = Call("Publisher::delete_datawriter", NoHandle, NoQos,
                                    DataWriterArgs(SharedPublisher, writer), "Ok")
    /\ publisher_mutex' = [publisher_mutex EXCEPT !["data_writer_list"] = None]
    /\ sent' = {}
    /\ UNCHANGED <<participant_alive, enabled, entityVars, ignoreVars, discoveryVars,
                   readerVars, facadeVars, waitVars, data_writer_impl, rtpsVars,
                   reader_samples, delivered, listenerVars, converted, awaiting,
                   protocolVars>>

(***************************************************************************)
(* SpecPublisherLocks: two threads create and delete data writers through  *)
(* one Publisher.                                                          *)
(***************************************************************************)
NextPublisherLocks ==
    \/ /\ Cardinality(DOMAIN data_writer_impl)
              + Cardinality({t \in PublisherThreads :
                                publisher_thread[t].op = "create_datawriter"
                                /\ publisher_thread[t].pc # "idle"
                                /\ publisher_thread[t].writer = 0}) < MaxDataWriters
       /\ \E t \in PublisherThreads : create_datawriter_call(t)
    \/ \E t \in PublisherThreads : mutex_lock(t)
    \/ \E t \in PublisherThreads : create_writer(t)
    \/ \E t \in PublisherThreads : push(t)
    \/ \E t \in PublisherThreads : create_datawriter_return(t)
    \/ \E t \in PublisherThreads, writer \in 1..MaxDataWriters :
           delete_datawriter_call(t, writer)
    \/ \E t \in PublisherThreads : delete_datawriter_remove(t)

SpecPublisherLocks == Init /\ [][NextPublisherLocks]_vars

(***************************************************************************)
(* The Topic handle's readers: each starts with self.rtps_topic.value()?.  *)
(***************************************************************************)
TopicGetters == {"Topic::get_name", "Topic::get_type_name", "Topic::get_qos",
                 "Topic::get_instance_handle"}

Topic_get(op) ==
    /\ last_call' = Call(op, NoHandle, NoQos, NoMessage,
                         IF rtps_topic_valid THEN "Ok" ELSE "AlreadyDeleted")
    /\ sent' = {}
    /\ UNCHANGED <<participant_alive, enabled, entityVars, ignoreVars, discoveryVars,
                   readerVars, facadeVars, waitVars, publisherImplVars, rtpsVars,
                   extensionVars>>

(***************************************************************************)
(* Spec: the participant's publishers, enable and the ignore sets.         *)
(***************************************************************************)
PublisherDeleteInputs ==
    {PublisherHandle(c) : c \in 0..MaxCreates} \cup {SubscriberHandle(0)}

Next ==
    \/ enable
    \/ \E h \in RemoteParticipantHandles : ignore_participant(h)
    \/ ignore_subscription(RemoteReaderHandle("p1"))
    \/ ignore_publication(RemoteWriterHandle("p1"))
    \/ /\ user_defined_publisher_counter < MaxCreates
       /\ \E qos \in QosKinds(PublisherQosValues) : create_user_defined_publisher(qos)
    \/ \E h \in PublisherDeleteInputs : delete_user_defined_publisher(h)
    \/ \E h \in DOMAIN user_defined_publisher_list, w \in 1..MaxWriters :
           datawriter_add(h, w, "T1")
    \/ \E h \in DOMAIN user_defined_publisher_list, w \in 1..MaxWriters :
           datawriter_delete(h, w)

Spec == Init /\ [][Next]_vars

(***************************************************************************)
(* SpecIds: publishers are created and deleted until the u8 id counter     *)
(* has gone around.  At most MaxLivePublishers publishers exist at a time; *)
(* a delete makes room by naming the publisher created last.               *)
(***************************************************************************)
LastPublisherHandle ==
    PublisherHandle((user_defined_publisher_counter + U8Modulus - 1) % U8Modulus)

NextIds ==
    \/ /\ Cardinality(DOMAIN user_defined_publisher_list) < MaxLivePublishers
       /\ create_user_defined_publisher(Default)
    \/ /\ Cardinality(DOMAIN user_defined_publisher_list) < MaxLivePublishers
       /\ create_user_defined_publisher_overflow(Default)
    \/ /\ Cardinality(DOMAIN user_defined_publisher_list) = MaxLivePublishers
       /\ delete_user_defined_publisher(LastPublisherHandle)

SpecIds == Init /\ [][NextIds]_vars

(***************************************************************************)
(* SpecSpdp: SPDP samples of two remote participants, with every outcome   *)
(* of the domain id and domain tag tests, arrive while the application     *)
(* enables the participant and ignores remote participants.                *)
(***************************************************************************)
\* every two of the six builtin endpoint bits are told apart by one mask
EndpointMasks ==
    { {"BUILTIN_ENDPOINT_PUBLICATIONS_DETECTOR", "BUILTIN_ENDPOINT_SUBSCRIPTIONS_DETECTOR",
       "BUILTIN_ENDPOINT_TOPICS_DETECTOR"},
      {"BUILTIN_ENDPOINT_PUBLICATIONS_ANNOUNCER", "BUILTIN_ENDPOINT_SUBSCRIPTIONS_DETECTOR",
       "BUILTIN_ENDPOINT_TOPICS_ANNOUNCER"},
      {"BUILTIN_ENDPOINT_SUBSCRIPTIONS_ANNOUNCER", "BUILTIN_ENDPOINT_TOPICS_DETECTOR",
       "BUILTIN_ENDPOINT_TOPICS_ANNOUNCER"} }

AllEndpoints == UNION EndpointMasks

DomainVariants ==
    {<<{}, domain_tag>>, <<{domain_id}, domain_tag>>,
     <<{domain_id + 1}, domain_tag>>, <<{domain_id}, "other">>}

\* p1 announces every domain variant with every mask, p2 all its endpoints
SpdpMessages ==
    {SpdpDiscoveredParticipantData("p1", domain[1], domain[2], endpoints) :
        domain \in DomainVariants, endpoints \in EndpointMasks}
    \cup {SpdpDiscoveredParticipantData("p2", {domain_id}, domain_tag, AllEndpoints)}

NextSpdp ==
    \/ enable
    \/ \E h \in RemoteParticipantHandles : ignore_participant(h)
    \/ \E message \in SpdpMessages : process_metatraffic_rtps_message(message)

SpecSpdp == Init /\ [][NextSpdp]_vars

(***************************************************************************)
(* SpecLease: SPDP samples arrive and time passes.                         *)
(***************************************************************************)
LeaseMessages ==
    {SpdpDiscoveredParticipantData(prefix, domain[1], domain[2], AllEndpoints) :
        prefix \in RemotePrefixes, domain \in DomainVariants}

NextLease ==
    \/ \E message \in LeaseMessages : process_metatraffic_rtps_message(message)
    \/ Tick

SpecLease == Init /\ [][NextLease]_vars

(***************************************************************************)
(* SpecSedp: SPDP and SEDP samples arrive in any order while the           *)
(* application creates publishers and subscribers, enables the participant *)
(* and ignores the remote participant p1, its writer and its reader.       *)
(***************************************************************************)
SedpMessages ==
    {SpdpDiscoveredParticipantData(prefix, {domain_id}, domain_tag, AllEndpoints) :
        prefix \in RemotePrefixes}
    \cup {DiscoveredWriterData(prefix, "T1") : prefix \in RemotePrefixes}
    \cup {Disposed(DiscoveredWriterData("p1", "T1"))}
    \cup {DiscoveredReaderData("p1", "T2")}

NextSedp ==
    \/ enable
    \/ ignore_participant(ParticipantHandle("p1"))
    \/ ignore_subscription(RemoteReaderHandle("p1"))
    \/ ignore_publication(RemoteWriterHandle("p1"))
    \/ /\ user_defined_publisher_counter < MaxMatchTargets
       /\ create_user_defined_publisher(Default)
    \/ /\ user_defined_subscriber_counter < MaxMatchTargets
       /\ create_user_defined_subscriber(Default)
    \/ \E message \in SedpMessages : process_metatraffic_rtps_message(message)

SpecSedp == Init /\ [][NextSedp]_vars

(***************************************************************************)
(* SpecInstanceStates: the SPDP sample of p1 and samples of a writer, a    *)
(* reader and a topic of p1 in each of the three instance states arrive    *)
(* while the application enables the participant and creates a publisher   *)
(* and a subscriber.                                                       *)
(***************************************************************************)
InstanceStateMessages ==
    {SpdpDiscoveredParticipantData("p1", {domain_id}, domain_tag, AllEndpoints)}
    \cup UNION {{data, Disposed(data), NotAliveNoWriters(data)} :
                   data \in {DiscoveredWriterData("p1", "T1"),
                             DiscoveredReaderData("p1", "T2"),
                             DiscoveredTopicData("p1", "T1")}}

NextInstanceStates ==
    \/ enable
    \/ /\ user_defined_publisher_counter < MaxMatchTargets
       /\ create_user_defined_publisher(Default)
    \/ /\ user_defined_subscriber_counter < MaxMatchTargets
       /\ create_user_defined_subscriber(Default)
    \/ \E message \in InstanceStateMessages : process_metatraffic_rtps_message(message)

SpecInstanceStates == Init /\ [][NextInstanceStates]_vars

(***************************************************************************)
(* SpecReader: two tasks call enable and set_qos on one data reader, their *)
(* requests to the actors interleaving.                                    *)
(***************************************************************************)
QosInputs == QosKinds(QosValues)

NextReader ==
    \/ \E t \in Tasks : enable_is_enabled(t)
    \/ \E t \in Tasks : enable_enable(t)
    \/ \E t \in Tasks, qos \in QosInputs : set_qos_qos(t, qos)
    \/ \E t \in Tasks : set_qos_is_enabled(t)
    \/ \E t \in Tasks : set_qos_get_qos(t)
    \/ \E t \in Tasks : set_qos_set_qos(t)
    \/ \E t \in Tasks : announce_reader(t)
    \/ \E t \in Tasks : announce_created_or_modified_data_reader(t)

SpecReader == Init /\ [][NextReader]_vars

(***************************************************************************)
(* SpecQos: the three set_qos operations that check consistency: one task  *)
(* on the data reader, the participant's default topic QoS and the Topic   *)
(* facade, whose topic may be deleted.                                     *)
(***************************************************************************)
NextQos ==
    \/ enable_is_enabled("t1")
    \/ enable_enable("t1")
    \/ \E qos \in QosInputs : set_qos_qos("t1", qos)
    \/ set_qos_is_enabled("t1")
    \/ set_qos_get_qos("t1")
    \/ set_qos_set_qos("t1")
    \/ announce_reader("t1")
    \/ announce_created_or_modified_data_reader("t1")
    \/ \E qos \in QosInputs : set_default_topic_qos(qos)
    \/ \E qos \in QosInputs : Topic_set_qos(qos)
    \/ MaybeValidRef_invalidate

SpecQos == Init /\ [][NextQos]_vars

(***************************************************************************)
(* SpecWait: wait_for_historical_data calls with any max_wait, while the   *)
(* reader is enabled, receives its historical data or is deleted, and the  *)
(* clock advances.                                                         *)
(***************************************************************************)
NextWait ==
    \/ \E max_wait \in 0..MaxWait : wait_for_historical_data(max_wait)
    \/ DataReaderActor_is_historical_data_received
    \/ wait_for_historical_data_poll
    \/ tokio_time_advance
    \/ DataReaderActor_historical_data_received
    \/ delete_datareader
    \/ enable_is_enabled("t1")
    \/ enable_enable("t1")
    \/ announce_reader("t1")
    \/ announce_created_or_modified_data_reader("t1")

SpecWait == Init /\ [][NextWait]_vars

(***************************************************************************)
(* SpecFacade: the application creates and deletes data writers through    *)
(* its two Publisher handles and uses its Topic handle, while the          *)
(* participant deletes the publishers and the topic behind the handles.    *)
(***************************************************************************)
NextFacade ==
    \/ /\ Cardinality(DOMAIN data_writer_impl) < MaxDataWriters
       /\ \E publisher \in PublisherNames : Publisher_create_datawriter(publisher, Default)
    \/ \E publisher \in PublisherNames, writer \in DOMAIN data_writer_impl :
           Publisher_delete_datawriter(publisher, writer)
    \/ \E publisher \in PublisherNames : delete_publisher(publisher)
    \/ \E qos \in QosInputs : Topic_set_qos(qos)
    \/ \E op \in TopicGetters : Topic_get(op)
    \/ MaybeValidRef_invalidate

SpecFacade == Init /\ [][NextFacade]_vars

(***************************************************************************)
(* SpecDefaults: the application sets the default QoS of the participant   *)
(* and of a publisher and creates one publisher, one subscriber, one topic *)
(* and data writers, with the default QoS or with a QoS of its own.        *)
(***************************************************************************)
NextDefaults ==
    \/ \E qos \in QosKinds(PublisherQosValues) : set_default_publisher_qos(qos)
    \/ \E qos \in QosKinds(SubscriberQosValues) : set_default_subscriber_qos(qos)
    \/ \E qos \in QosInputs : set_default_topic_qos(qos)
    \/ /\ user_defined_publisher_list = EmptyMap
       /\ \E qos \in QosKinds(PublisherQosValues) : create_user_defined_publisher(qos)
    \/ /\ user_defined_subscriber_list = EmptyMap
       /\ \E qos \in QosKinds(SubscriberQosValues) : create_user_defined_subscriber(qos)
    \/ /\ user_defined_topic_list = EmptyMap
       /\ \E qos \in QosInputs : create_user_defined_topic("T1", qos)
    \/ \E qos \in QosInputs : set_default_datawriter_qos("pub1", qos)
    \/ /\ data_writer_impl = EmptyMap
       /\ \E qos \in QosInputs : Publisher_create_datawriter("pub1", qos)

SpecDefaults == Init /\ [][NextDefaults]_vars

(***************************************************************************)
(* SpecDelete: the application creates publishers, subscribers and a       *)
(* topic, data writers and data readers join them, and                     *)
(* delete_contained_entities is called, any of its disposes failing.       *)
(***************************************************************************)
NextDelete ==
    \/ /\ user_defined_publisher_counter < MaxCreates
       /\ create_user_defined_publisher(Default)
    \/ /\ user_defined_subscriber_counter < MaxWriters
       /\ create_user_defined_subscriber(Default)
    \/ /\ user_defined_topic_counter < MaxMatchTargets
       /\ create_user_defined_topic("T1", Default)
    \/ \E handle \in DOMAIN user_defined_publisher_list, writer \in 1..MaxWriters :
           /\ DataWriterHandles(handle) = {}
           /\ datawriter_add(handle, writer, "T1")
    \/ \E handle \in DOMAIN user_defined_subscriber_list, reader \in 1..MaxWriters :
           /\ DataReaderHandles(handle) = {}
           /\ datareader_add(handle, reader, "T1")
    \/ \E failure \in DisposeFailures : delete_contained_entities(failure)

SpecDelete == Init /\ [][NextDelete]_vars

(***************************************************************************)
(* BestEffortStatelessReaderBehavior::receive_data.  The change kind is    *)
(* matched on (data_flag, key_flag); the two combinations the match does   *)
(* not name reach todo!(), which panics before any change is built.        *)
(***************************************************************************)
ENTITYID_UNKNOWN == EntityId(<<0, 0, 0>>, "USER_DEFINED_UNKNOWN")

\* the DATA submessages a stateless reader is handed
DataSubmessages ==
    [data_flag : BOOLEAN, key_flag : BOOLEAN,
     reader_id : {ENTITYID_UNKNOWN, ENTITYID_SPDP_BUILTIN_PARTICIPANT_READER},
     writer_id : {ENTITYID_SPDP_BUILTIN_PARTICIPANT_WRITER},
     writer_sn : 1..MaxChanges]

\* CacheChange::new(kind, writer_guid, instance_handle, sequence_number, ..)
CacheChange_new(kind, writer_guid, instance_handle, sequence_number) ==
    [kind |-> kind, writer_guid |-> writer_guid, instance_handle |-> instance_handle,
     sequence_number |-> sequence_number]

\* RtpsHistoryCacheOperations::add_change
add_change(cache, a_change) == Append(cache, a_change)

receive_data(source_guid_prefix, data) ==
    /\ LET kind == IF data.data_flag /\ ~data.key_flag THEN "Alive"
                   ELSE IF ~data.data_flag /\ data.key_flag THEN "NotAliveDisposed"
                   ELSE "todo!()"
           writer_guid == Guid(source_guid_prefix, data.writer_id)
           instance_handle == 0
           sequence_number == data.writer_sn
           a_change == CacheChange_new(kind, writer_guid, instance_handle, sequence_number)
       IN /\ reader_cache' =
                 IF kind = "todo!()" THEN reader_cache
                 ELSE add_change(reader_cache, a_change)
          /\ last_call' = Call("receive_data", NoHandle, NoQos,
                               [kind |-> "Data", source_guid_prefix |-> source_guid_prefix,
                                data |-> data],
                               IF kind = "todo!()" THEN "Panic" ELSE "Ok")
    /\ sent' = {}
    /\ UNCHANGED <<participant_alive, enabled, entityVars, ignoreVars, discoveryVars,
                   readerVars, facadeVars, waitVars, publisherImplVars,
                   sequenceNumberSetVars, extensionVars>>

(***************************************************************************)
(* SpecStatelessReader: DATA submessages from any source arrive at a       *)
(* best-effort stateless reader.                                           *)
(***************************************************************************)
NextStatelessReader ==
    \E source_guid_prefix \in RemotePrefixes, data \in DataSubmessages :
        /\ Len(reader_cache) < MaxChanges
        /\ receive_data(source_guid_prefix, data)

SpecStatelessReader == Init /\ [][NextStatelessReader]_vars

(***************************************************************************)
(* rtps_udp_psm: SequenceNumberSet.  A SequenceNumber is written as the    *)
(* i64 it converts into (every value here has high = 0 or is a small       *)
(* negative number); the bitmap [i32; 8] is written as the set of bit      *)
(* positions that are 1 in each of its eight words.                        *)
(***************************************************************************)
BitmapWords == 8
WordBits == 32
BitmapBits == 256

\* i64 division, which truncates towards zero
i64_div(a, b) == IF a >= 0 THEN a \div b ELSE -((-a) \div b)

\* the builds of the crate: with overflow checks (debug) and without (release)
OverflowChecks == BOOLEAN

\* the inputs collected: nothing, or a base followed by numbers around it
Bases == {2, 1234}
Offsets == {-33, -32, -31, -1, 0, 1, 2, 31, 32, 64, 255, 256}
LaterNumbers(base, n) == [1..n -> {base + offset : offset \in Offsets}]
SequenceNumberInputs ==
    {<<>>} \cup UNION {UNION {{<<base>> \o later : later \in LaterNumbers(base, n)} :
                                n \in 0..MaxNumbers} : base \in Bases}

\* or_assign_shl assigning the shifted bit instead of or-ing it in
or_assign_shl_assigned(set, array_index, bit_position, overflow_checks) ==
    IF set.status = "Panic" THEN set
    ELSE IF array_index < 0 \/ array_index >= BitmapWords
         THEN [set EXCEPT !.status = "Panic"]
    ELSE IF overflow_checks /\ (bit_position < 0 \/ bit_position >= WordBits)
         THEN [set EXCEPT !.status = "Panic"]
    ELSE [set EXCEPT !.bitmap[array_index] = {bit_position % WordBits}]

\* bitmap[array_index as usize] |= 1 << bit_position, a panic if the index is
\* out of bounds or, with overflow checks, the shift amount is not in 0..31;
\* without overflow checks the shift amount is taken modulo 32
or_assign_shl(set, array_index, bit_position, overflow_checks) ==
    IF set.status = "Panic" THEN set
    ELSE IF array_index < 0 \/ array_index >= BitmapWords
         THEN [set EXCEPT !.status = "Panic"]
    ELSE IF overflow_checks /\ (bit_position < 0 \/ bit_position >= WordBits)
         THEN [set EXCEPT !.status = "Panic"]
    ELSE [set EXCEPT !.bitmap[array_index] = @ \cup {bit_position % WordBits}]

\* the while loop of from_iter over the elements after the first
RECURSIVE from_iter_while(_, _, _)
from_iter_while(set, values, overflow_checks) ==
    IF values = <<>> THEN set
    ELSE LET offset == Head(values) - set.base
             array_index == i64_div(offset, WordBits)
             bit_position == offset - array_index * WordBits
         IN from_iter_while(or_assign_shl(set, array_index, bit_position, overflow_checks),
                            Tail(values), overflow_checks)

\* from_iter starting from an all-zero bitmap
from_iter_base_not_marked(iter, overflow_checks) ==
    IF iter # <<>>
    THEN from_iter_while([status |-> "Some", base |-> Head(iter), bitmap |-> ZeroBitmap],
                         Tail(iter), overflow_checks)
    ELSE [status |-> "Some", base |-> 0, bitmap |-> ZeroBitmap]

\* SequenceNumberSet::from_iter
from_iter(iter, overflow_checks) ==
    IF iter # <<>>
    THEN from_iter_while([status |-> "Some", base |-> Head(iter),
                          bitmap |-> [ZeroBitmap EXCEPT ![0] = {0}]],
                         Tail(iter), overflow_checks)
    ELSE [status |-> "Some", base |-> 0, bitmap |-> ZeroBitmap]

\* let sequence_number_set: SequenceNumberSet = sequence_numbers.iter().copied().collect()
collect(iter, overflow_checks) ==
    /\ sequence_numbers' = iter
    /\ sequence_number_set' = from_iter(iter, overflow_checks)
    /\ iterator' = NoIterator
    /\ yielded' = <<>>
    /\ last_call' = Call("from_iter", NoHandle, NoQos,
                         [kind |-> "collect", overflow_checks |-> overflow_checks],
                         IF sequence_number_set'.status = "Panic" THEN "Panic" ELSE "Ok")
    /\ sent' = {}
    /\ UNCHANGED <<participant_alive, enabled, entityVars, ignoreVars, discoveryVars,
                   readerVars, facadeVars, waitVars, publisherImplVars, reader_cache,
                   extensionVars>>

\* SequenceNumberSet::into_iter
into_iter ==
    /\ sequence_number_set.status = "Some"
    /\ iterator' = [status |-> "Some", set |-> sequence_number_set, index |-> 0]
    /\ yielded' = <<>>
    /\ last_call' = Call("into_iter", NoHandle, NoQos, NoMessage, "Ok")
    /\ sent' = {}
    /\ UNCHANGED <<participant_alive, enabled, entityVars, ignoreVars, discoveryVars,
                   readerVars, facadeVars, waitVars, publisherImplVars, reader_cache,
                   sequence_numbers, sequence_number_set, extensionVars>>

\* the test of the for loop: bitmap[array_index] & (1 << bit_position) == 1 << bit_position
bit_is_set(set, index) ==
    LET array_index == index \div WordBits
        bit_position == index - array_index * WordBits
    IN bit_position \in set.bitmap[array_index]

\* the indices the for loop of next stops at, from self.index on
set_indices_from(it) ==
    {index \in it.index..(BitmapBits - 1) : bit_is_set(it.set, index)}

\* next() never stopping at bit 31 of a word
SequenceNumberSetIterator_next_sign_bit_skipped ==
    /\ iterator.status = "Some"
    /\ LET found == {index \in set_indices_from(iterator) :
                        index % WordBits # WordBits - 1}
       IN IF found # {}
          THEN LET index == CHOOSE i \in found : \A j \in found : i <= j
               IN /\ yielded' = Append(yielded, Some(iterator.set.base + index))
                  /\ iterator' = [iterator EXCEPT !.index = index + 1]
          ELSE /\ yielded' = Append(yielded, None)
               /\ iterator' = [iterator EXCEPT !.index = BitmapBits]
    /\ last_call' = Call("next", NoHandle, NoQos, NoMessage, yielded'[Len(yielded')].kind)
    /\ sent' = {}
    /\ UNCHANGED <<participant_alive, enabled, entityVars, ignoreVars, discoveryVars,
                   readerVars, facadeVars, waitVars, publisherImplVars, reader_cache,
                   sequence_numbers, sequence_number_set, extensionVars>>

\* SequenceNumberSetIterator::next
SequenceNumberSetIterator_next ==
    /\ iterator.status = "Some"
    /\ LET found == set_indices_from(iterator)
       IN IF found # {}
          THEN LET index == CHOOSE i \in found : \A j \in found : i <= j
                   array_index == index \div WordBits
                   bit_position == index - array_index * WordBits
               IN /\ yielded' = Append(yielded, Some(iterator.set.base
                                                     + array_index * WordBits
                                                     + bit_position))
                  /\ iterator' = [iterator EXCEPT !.index = index + 1]
          ELSE /\ yielded' = Append(yielded, None)
               /\ iterator' = [iterator EXCEPT !.index = BitmapBits]
    /\ last_call' = Call("next", NoHandle, NoQos, NoMessage, yielded'[Len(yielded')].kind)
    /\ sent' = {}
    /\ UNCHANGED <<participant_alive, enabled, entityVars, ignoreVars, discoveryVars,
                   readerVars, facadeVars, waitVars, publisherImplVars, reader_cache,
                   sequence_numbers, sequence_number_set, extensionVars>>

(***************************************************************************)
(* SpecSequenceNumberSet: sequence numbers are collected into a set, in a  *)
(* build with or without overflow checks, and the set is iterated.         *)
(***************************************************************************)
NextSequenceNumberSet ==
    \/ /\ sequence_number_set.status = "None"
       /\ \E iter \in SequenceNumberInputs, overflow_checks \in OverflowChecks :
              collect(iter, overflow_checks)
    \/ /\ iterator.status = "None"
       /\ into_iter
    \/ /\ Cardinality({k \in 1..Len(yielded) : yielded[k] = None}) < MaxNext
       /\ SequenceNumberSetIterator_next

SpecSequenceNumberSet == Init /\ [][NextSequenceNumberSet]_vars

(***************************************************************************)
(* SequenceNumber and i64.  A 64-bit integer is its two's complement bit   *)
(* pattern in four 16-bit limbs, limb 0 the least significant; a 32-bit    *)
(* integer is two limbs.  SequenceNumber is [high: i32, low: u32].         *)
(***************************************************************************)
\* the limbs the inputs are built from: the ends of the range and of each sign
LimbInputs == {0, 1, 32767, 32768, 65535}

I64Inputs == [0..3 -> LimbInputs]

is_negative(limbs) == limbs[Cardinality(DOMAIN limbs) - 1] >= 32768

\* `as i64` of an i32: sign extension
i32_as_i64(value) ==
    [i \in 0..3 |-> IF i < 2 THEN value[i] ELSE IF is_negative(value) THEN 65535 ELSE 0]

\* `as i64` of a u32: zero extension
u32_as_i64(value) == [i \in 0..3 |-> IF i < 2 THEN value[i] ELSE 0]

\* `as i32` and `as u32` of an i64: the low 32 bits
i64_as_32(value) == [i \in 0..1 |-> value[i]]

\* value << 32
shl_32(value) == [i \in 0..3 |-> IF i < 2 THEN 0 ELSE value[i - 2]]

\* value >> 32 of an i64: arithmetic shift
shr_32(value) ==
    [i \in 0..3 |-> IF i < 2 THEN value[i + 2] ELSE IF is_negative(value) THEN 65535 ELSE 0]

RECURSIVE carry_into(_, _, _)
carry_into(a, b, i) ==
    IF i = 0 THEN 0 ELSE (a[i - 1] + b[i - 1] + carry_into(a, b, i - 1)) \div 65536

\* a + b on i64: the wrapped sum, and whether the addition overflows
i64_add(a, b) ==
    LET sum == [i \in 0..3 |-> (a[i] + b[i] + carry_into(a, b, i)) % 65536]
    IN [value |-> sum,
        overflow |-> is_negative(a) = is_negative(b) /\ is_negative(sum) # is_negative(a)]

\* i64::cmp: the sign bit flipped, then most significant limb first
i64_cmp(a, b) ==
    LET key(v) == [i \in 0..3 |-> IF i = 3 THEN (v[i] + 32768) % 65536 ELSE v[i]]
        differ == {i \in 0..3 : key(a)[i] # key(b)[i]}
        top == CHOOSE i \in differ : \A j \in differ : j <= i
    IN IF differ = {} THEN "Equal"
       ELSE IF key(a)[top] < key(b)[top] THEN "Less" ELSE "Greater"

\* Into<i64> with the low half converted as a signed integer
Into_i64_low_as_signed(self) ==
    i64_add(shl_32(i32_as_i64(self.high)), i32_as_i64(self.low))

\* impl Into<i64> for SequenceNumber
Into_i64(self) == i64_add(shl_32(i32_as_i64(self.high)), u32_as_i64(self.low))

\* impl From<i64> for SequenceNumber
From_i64(value) == [high |-> i64_as_32(shr_32(value)), low |-> i64_as_32(value)]

\* impl Ord for SequenceNumber
SequenceNumber_cmp(self, other) == i64_cmp(Into_i64(self).value, Into_i64(other).value)

SEQUENCE_NUMBER_UNKNOWN ==
    [high |-> [i \in 0..1 |-> IF i = 1 THEN 32768 ELSE 0], low |-> [i \in 0..1 |-> 65535]]

SequenceNumber_from(value) ==
    /\ converted' = [op |-> "from", value |-> value, result |-> From_i64(value)]
    /\ last_call' = Call("SequenceNumber::from", NoHandle, NoQos, NoMessage, "Ok")
    /\ sent' = {}
    /\ UNCHANGED <<participant_alive, enabled, entityVars, ignoreVars, discoveryVars,
                   readerVars, facadeVars, waitVars, publisherImplVars, rtpsVars,
                   reader_samples, delivered, listenerVars,
                   concurrencyVars>>

SequenceNumber_into(self) ==
    /\ converted' = [op |-> "into", self |-> self, result |-> Into_i64(self)]
    /\ last_call' = Call("SequenceNumber::into", NoHandle, NoQos, NoMessage, "Ok")
    /\ sent' = {}
    /\ UNCHANGED <<participant_alive, enabled, entityVars, ignoreVars, discoveryVars,
                   readerVars, facadeVars, waitVars, publisherImplVars, rtpsVars,
                   reader_samples, delivered, listenerVars,
                   concurrencyVars>>

\* the sequence numbers made from two i64 are compared
SequenceNumber_from_cmp(a, b) ==
    /\ converted' = [op |-> "cmp", a |-> a, b |-> b,
                     result |-> SequenceNumber_cmp(From_i64(a), From_i64(b))]
    /\ last_call' = Call("SequenceNumber::cmp", NoHandle, NoQos, NoMessage, "Ok")
    /\ sent' = {}
    /\ UNCHANGED <<participant_alive, enabled, entityVars, ignoreVars, discoveryVars,
                   readerVars, facadeVars, waitVars, publisherImplVars, rtpsVars,
                   reader_samples, delivered, listenerVars,
                   concurrencyVars>>

(***************************************************************************)
(* SpecSequenceNumber: i64 values are converted to sequence numbers,       *)
(* sequence numbers to i64, and sequence numbers are compared.             *)
(***************************************************************************)
NextSequenceNumber ==
    \/ /\ converted = NoConversion
       /\ \E value \in I64Inputs : SequenceNumber_from(value)
    \/ /\ converted = NoConversion
       /\ \E high, low \in [0..1 -> LimbInputs] :
              SequenceNumber_into([high |-> high, low |-> low])
    \/ /\ converted = NoConversion
       /\ \E a \in I64Inputs, b \in [0..3 -> {0, 32768, 65535}] :
              SequenceNumber_from_cmp(a, b)

SpecSequenceNumber == Init /\ [][NextSequenceNumber]_vars

(***************************************************************************)
(* SpecBatch: metatraffic messages with several DATA submessages, some of  *)
(* which cannot be processed, arrive at a participant with one subscriber. *)
(***************************************************************************)
BatchData ==
    {SpdpDiscoveredParticipantData("p1", {domain_id}, domain_tag, endpoints) :
        endpoints \in {AllEndpoints, {"BUILTIN_ENDPOINT_TOPICS_DETECTOR"}}}
    \cup {DiscoveredWriterData("p1", "T1")}

BatchSamples ==
    BatchData
    \cup {Malformed(data) : data \in BatchData}
    \cup {NoData(data) : data \in {d \in BatchData : d.kind = "DCPSParticipant"}}

Batches == UNION {[1..n -> BatchSamples] : n \in 1..MaxSamples}

NextBatch ==
    \/ /\ user_defined_subscriber_list = EmptyMap
       /\ create_user_defined_subscriber(Default)
    \/ /\ user_defined_subscriber_list # EmptyMap
       /\ \E submessages \in Batches : process_metatraffic_rtps_submessages(submessages)

SpecBatch == Init /\ [][NextBatch]_vars

(***************************************************************************)
(* DataReaderAsync::read_next_sample and take_next_sample.  Each is one    *)
(* read (take) request to the reader actor for at most one NOT_READ        *)
(* sample; the actor answers NotEnabled on a disabled reader, NoData when  *)
(* no sample matches, and else the matching samples, oldest first.         *)
(***************************************************************************)
ANY_SAMPLE_STATE == {"Read", "NotRead"}
ANY_VIEW_STATE == {"New", "NotNew"}
ANY_INSTANCE_STATE == {"Alive", "NotAliveDisposed", "NotAliveNoWriters"}

\* the positions of the samples a read or take with these arguments returns
matching_samples(samples, max_samples, sample_states, view_states, instance_states) ==
    LET matching == {i \in 1..Len(samples) :
                        /\ samples[i].sample_state \in sample_states
                        /\ samples[i].view_state \in view_states
                        /\ samples[i].instance_state \in instance_states}
    IN {i \in matching : Cardinality({j \in matching : j < i}) < max_samples}

\* the samples at the positions in indices, in their order
Restrict(samples, indices) ==
    [k \in 1..Cardinality(indices) |->
        samples[CHOOSE i \in indices : Cardinality({j \in indices : j < i}) = k - 1]]

\* DataReaderActor::read: [ret, samples (returned), cache (the reader's samples after)]
DataReaderActor_read(samples, max_samples, sample_states, view_states, instance_states) ==
    LET indices == matching_samples(samples, max_samples, sample_states, view_states,
                                    instance_states)
    IN IF ~reader_enabled THEN [ret |-> "NotEnabled", samples |-> <<>>, cache |-> samples]
       ELSE IF indices = {} THEN [ret |-> "NoData", samples |-> <<>>, cache |-> samples]
       ELSE [ret |-> "Ok",
             samples |-> Restrict(samples, indices),
             cache |-> [i \in 1..Len(samples) |->
                           IF i \in indices
                           THEN [samples[i] EXCEPT !.sample_state = "Read",
                                                   !.view_state = "NotNew"]
                           ELSE samples[i]]]

\* DataReaderActor::take: as read, the returned samples leaving the reader
DataReaderActor_take(samples, max_samples, sample_states, view_states, instance_states) ==
    LET indices == matching_samples(samples, max_samples, sample_states, view_states,
                                    instance_states)
    IN IF ~reader_enabled THEN [ret |-> "NotEnabled", samples |-> <<>>, cache |-> samples]
       ELSE IF indices = {} THEN [ret |-> "NoData", samples |-> <<>>, cache |-> samples]
       ELSE [ret |-> "Ok",
             samples |-> Restrict(samples, indices),
             cache |-> Restrict(samples, (1..Len(samples)) \ indices)]

\* let (data, sample_info) = samples.pop().expect(..); Ok(Sample::new(data, sample_info))
pop_expect(reply, op) ==
    IF reply.ret # "Ok" THEN Call(op, NoHandle, NoQos, NoMessage, reply.ret)
    ELSE IF reply.samples = <<>> THEN Call(op, NoHandle, NoQos, NoMessage, "Panic")
    ELSE Call(op, NoHandle, NoQos,
              [kind |-> "Sample", sample |-> reply.samples[Len(reply.samples)]], "Ok")

\* read_next_sample asking for a sample in any sample state
read_next_sample_any_sample_state ==
    /\ LET reply == DataReaderActor_read(reader_samples, 1, ANY_SAMPLE_STATE,
                                         ANY_VIEW_STATE, ANY_INSTANCE_STATE)
       IN /\ reader_samples' = reply.cache
          /\ last_call' = pop_expect(reply, "read_next_sample")
    /\ sent' = {}
    /\ UNCHANGED <<participant_alive, enabled, entityVars, ignoreVars, discoveryVars,
                   readerVars, facadeVars, waitVars, publisherImplVars, rtpsVars,
                   delivered, listenerVars, converted,
                   concurrencyVars>>

read_next_sample ==
    /\ LET reply == DataReaderActor_read(reader_samples, 1, {"NotRead"},
                                         ANY_VIEW_STATE, ANY_INSTANCE_STATE)
       IN /\ reader_samples' = reply.cache
          /\ last_call' = pop_expect(reply, "read_next_sample")
    /\ sent' = {}
    /\ UNCHANGED <<participant_alive, enabled, entityVars, ignoreVars, discoveryVars,
                   readerVars, facadeVars, waitVars, publisherImplVars, rtpsVars,
                   delivered, listenerVars, converted,
                   concurrencyVars>>

take_next_sample ==
    /\ LET reply == DataReaderActor_take(reader_samples, 1, {"NotRead"},
                                         ANY_VIEW_STATE, ANY_INSTANCE_STATE)
       IN /\ reader_samples' = reply.cache
          /\ last_call' = pop_expect(reply, "take_next_sample")
    /\ sent' = {}
    /\ UNCHANGED <<participant_alive, enabled, entityVars, ignoreVars, discoveryVars,
                   readerVars, facadeVars, waitVars, publisherImplVars, rtpsVars,
                   delivered, listenerVars, converted,
                   concurrencyVars>>

\* the reader actor adds a received sample of an instance to its samples
DataReaderActor_add_sample(data, view_state, instance_state) ==
    /\ reader_enabled
    /\ reader_samples' = Append(reader_samples,
                                [data |-> data, sample_state |-> "NotRead",
                                 view_state |-> view_state,
                                 instance_state |-> instance_state])
    /\ last_call' = Call("add_sample", NoHandle, NoQos, NoMessage, "Ok")
    /\ sent' = {}
    /\ UNCHANGED <<participant_alive, enabled, entityVars, ignoreVars, discoveryVars,
                   readerVars, facadeVars, waitVars, publisherImplVars, rtpsVars,
                   delivered, listenerVars, converted,
                   concurrencyVars>>

(***************************************************************************)
(* SpecRead: a data reader is enabled, receives samples, and the           *)
(* application reads and takes them one at a time.                         *)
(***************************************************************************)
NextRead ==
    \/ enable_is_enabled("t1")
    \/ enable_enable("t1")
    \/ announce_reader("t1")
    \/ announce_created_or_modified_data_reader("t1")
    \/ /\ Len(reader_samples) < MaxReaderSamples
       /\ \E data \in {"a", "b"}, view_state \in ANY_VIEW_STATE,
             instance_state \in {"Alive", "NotAliveDisposed"} :
              DataReaderActor_add_sample(data, view_state, instance_state)
    \/ read_next_sample
    \/ take_next_sample

SpecRead == Init /\ [][NextRead]_vars

(***************************************************************************)
(* SpecEntities: publishers, subscribers and topics are created, get data  *)
(* writers and data readers, and are deleted by handles of this            *)
(* participant's entities of any kind, live or deleted, and by the handle  *)
(* of an entity of another participant.                                    *)
(***************************************************************************)
DeleteInputs ==
    {PublisherHandle(0), SubscriberHandle(0),
     InstanceHandle(Guid("p1", EntityId(<<0, 0, 0>>, "USER_DEFINED_READER_GROUP")))}
    \cup {TopicHandle(c) : c \in 0..MaxCreates}

NextEntities ==
    \/ /\ user_defined_publisher_counter < MaxMatchTargets
       /\ create_user_defined_publisher(Default)
    \/ /\ user_defined_subscriber_counter < MaxMatchTargets
       /\ create_user_defined_subscriber(Default)
    \/ /\ user_defined_topic_counter < MaxCreates
       /\ \E topic_name \in {"T1", "T2"} : create_user_defined_topic(topic_name, Default)
    \/ \E handle \in DOMAIN user_defined_publisher_list,
          topic \in DOMAIN user_defined_topic_list :
           /\ user_defined_publisher_list[handle].data_writer_list = {}
           /\ datawriter_add(handle, 1, user_defined_topic_list[topic].name)
    \/ \E handle \in DOMAIN user_defined_subscriber_list,
          topic \in DOMAIN user_defined_topic_list :
           /\ user_defined_subscriber_list[handle].data_reader_list = {}
           /\ datareader_add(handle, 1, user_defined_topic_list[topic].name)
    \/ \E handle \in DeleteInputs : delete_user_defined_publisher(handle)
    \/ \E handle \in DeleteInputs : delete_user_defined_subscriber(handle)
    \/ \E handle \in DeleteInputs : delete_user_defined_topic(handle)

SpecEntities == Init /\ [][NextEntities]_vars

(***************************************************************************)
(* SpecMessages: metatraffic and user-defined RTPS messages arrive while   *)
(* the application creates and deletes publishers and subscribers.         *)
(***************************************************************************)
UserDefinedMessages == {[kind |-> "Data", key |-> NoHandle]}

NextMessages ==
    \/ /\ user_defined_publisher_counter < MaxCreates
       /\ create_user_defined_publisher(Default)
    \/ /\ user_defined_subscriber_counter < MaxCreates
       /\ create_user_defined_subscriber(Default)
    \/ \E handle \in DOMAIN user_defined_publisher_list :
           delete_user_defined_publisher(handle)
    \/ \E handle \in DOMAIN user_defined_subscriber_list :
           delete_user_defined_subscriber(handle)
    \/ \E message \in {SpdpDiscoveredParticipantData("p1", {domain_id}, domain_tag,
                                                     AllEndpoints),
                       DiscoveredWriterData("p1", "T1")} :
           process_metatraffic_rtps_message(message)
    \/ \E message \in UserDefinedMessages : process_user_defined_rtps_message(message)

SpecMessages == Init /\ [][NextMessages]_vars

(***************************************************************************)
(* SpecListener: the application sets the participant's listener and mask  *)
(* and creates publishers while the reader of the remote participant p1 is *)
(* discovered and disposed.                                                *)
(***************************************************************************)
StatusKinds == {"PublicationMatched", "OfferedIncompatibleQos", "SubscriptionMatched"}

NextListener ==
    \/ \E a_listener \in {"NoListener", "l1"}, mask \in SUBSET StatusKinds :
           set_listener(a_listener, mask)
    \/ /\ user_defined_publisher_counter < MaxMatchTargets
       /\ create_user_defined_publisher(Default)
    \/ \E message \in {SpdpDiscoveredParticipantData("p1", {domain_id}, domain_tag,
                                                     AllEndpoints),
                       DiscoveredReaderData("p1", "T1"),
                       Disposed(DiscoveredReaderData("p1", "T1"))} :
           process_metatraffic_rtps_message(message)

SpecListener == Init /\ [][NextListener]_vars

(***************************************************************************)
(* SpecDeleteRace: the participant actor deletes publishers and            *)
(* subscribers while data writers and data readers are created by requests *)
(* sent to the publisher and subscriber actors.  The participant actor     *)
(* takes its next request when the handler of the last one has returned.   *)
(***************************************************************************)
NextDeleteRace ==
    \/ /\ awaiting = NoRequest
       /\ user_defined_publisher_counter < MaxCreates
       /\ create_user_defined_publisher(Default)
    \/ /\ awaiting = NoRequest
       /\ user_defined_subscriber_counter < MaxWriters
       /\ create_user_defined_subscriber(Default)
    \/ \E handle \in DOMAIN user_defined_publisher_list :
           /\ user_defined_publisher_list[handle].data_writer_list = {}
           /\ datawriter_add(handle, 1, "T1")
    \/ \E handle \in DOMAIN user_defined_subscriber_list :
           /\ user_defined_subscriber_list[handle].data_reader_list = {}
           /\ datareader_add(handle, 1, "T1")
    \/ \E handle \in DOMAIN user_defined_publisher_list :
           delete_user_defined_publisher_data_writer_list(handle)
    \/ delete_user_defined_publisher_resumed
    \/ \E handle \in DOMAIN user_defined_subscriber_list :
           delete_user_defined_subscriber_is_empty(handle)
    \/ delete_user_defined_subscriber_resumed

SpecDeleteRace == Init /\ [][NextDeleteRace]_vars

(***************************************************************************)
(* RtpsProtocol (protocol.rs).  self.participant.lock().unwrap().f() takes *)
(* the mutex, calls f on the Participant and drops the guard at the end of *)
(* the statement.  A thread is [kind, id]; a spawned thread is at          *)
(* send_lock, send_metatraffic, sleep, reset_lock or reset_discovery.      *)
(***************************************************************************)
LoopThread(i) == [kind |-> "loop", id |-> i]

CallerThread(c) == [kind |-> "caller", id |-> c]

\* an access to the Participant by a thread, with the holder of the mutex
Access(op, thread) ==
    Call(op, NoHandle, NoQos,
         [kind |-> "access", by |-> thread, holder |-> protocol_participant.mutex], "Ok")

\* enable: std::thread::spawn(move || loop { .. }); thread_handle.push(handle)
RtpsProtocol_enable ==
    /\ Len(thread_handle) < MaxEnables
    /\ thread_handle' = Append(thread_handle, "send_lock")
    /\ last_call' = Step("RtpsProtocol_enable")
    /\ UNCHANGED <<protocol_participant, caller, resets_since_send>>
    /\ sent' = {}
    /\ UNCHANGED <<participant_alive, enabled, entityVars, ignoreVars, discoveryVars,
                   readerVars, facadeVars, waitVars, publisherImplVars, rtpsVars,
                   reader_samples, delivered, listenerVars, converted, awaiting,
                   lockVars>>

\* participant.lock().unwrap() of the spawned thread i
loop_lock(i) ==
    /\ thread_handle[i] \in {"send_lock", "reset_lock"}
    /\ protocol_participant.mutex = None
    /\ protocol_participant' = [mutex |-> Some(LoopThread(i))]
    /\ thread_handle' = [thread_handle EXCEPT ![i] =
                            IF @ = "send_lock" THEN "send_metatraffic"
                                               ELSE "reset_discovery"]
    /\ last_call' = Step("lock")
    /\ UNCHANGED <<caller, resets_since_send>>
    /\ sent' = {}
    /\ UNCHANGED <<participant_alive, enabled, entityVars, ignoreVars, discoveryVars,
                   readerVars, facadeVars, waitVars, publisherImplVars, rtpsVars,
                   reader_samples, delivered, listenerVars, converted, awaiting,
                   lockVars>>

\* .send_metatraffic(); and the guard is dropped
send_metatraffic(i) ==
    /\ thread_handle[i] = "send_metatraffic"
    /\ last_call' = Access("send_metatraffic", LoopThread(i))
    /\ resets_since_send' = Some(0)
    /\ protocol_participant' = [mutex |-> None]
    /\ thread_handle' = [thread_handle EXCEPT ![i] = "sleep"]
    /\ UNCHANGED caller
    /\ sent' = {}
    /\ UNCHANGED <<participant_alive, enabled, entityVars, ignoreVars, discoveryVars,
                   readerVars, facadeVars, waitVars, publisherImplVars, rtpsVars,
                   reader_samples, delivered, listenerVars, converted, awaiting,
                   lockVars>>

\* std::thread::sleep(std::time::Duration::from_millis(500))
sleep(i) ==
    /\ thread_handle[i] = "sleep"
    /\ thread_handle' = [thread_handle EXCEPT ![i] = "reset_lock"]
    /\ last_call' = Step("sleep")
    /\ UNCHANGED <<protocol_participant, caller, resets_since_send>>
    /\ sent' = {}
    /\ UNCHANGED <<participant_alive, enabled, entityVars, ignoreVars, discoveryVars,
                   readerVars, facadeVars, waitVars, publisherImplVars, rtpsVars,
                   reader_samples, delivered, listenerVars, converted, awaiting,
                   lockVars>>

\* .reset_discovery() and the guard is dropped
reset_discovery(i) ==
    /\ thread_handle[i] = "reset_discovery"
    /\ last_call' = Access("reset_discovery", LoopThread(i))
    /\ resets_since_send' = IF resets_since_send = None THEN None
                            ELSE Some(resets_since_send.value + 1)
    /\ protocol_participant' = [mutex |-> None]
    /\ thread_handle' = [thread_handle EXCEPT ![i] = "send_lock"]
    /\ UNCHANGED caller
    /\ sent' = {}
    /\ UNCHANGED <<participant_alive, enabled, entityVars, ignoreVars, discoveryVars,
                   readerVars, facadeVars, waitVars, publisherImplVars, rtpsVars,
                   reader_samples, delivered, listenerVars, converted, awaiting,
                   lockVars>>

\* create_publisher, create_subscriber, create_writer or create_reader:
\* self.participant.lock().unwrap()
create_lock(c, op) ==
    /\ caller[c] = "idle"
    /\ protocol_participant.mutex = None
    /\ protocol_participant' = [mutex |-> Some(CallerThread(c))]
    /\ caller' = [caller EXCEPT ![c] = op]
    /\ last_call' = Step("lock")
    /\ UNCHANGED <<thread_handle, resets_since_send>>
    /\ sent' = {}
    /\ UNCHANGED <<participant_alive, enabled, entityVars, ignoreVars, discoveryVars,
                   readerVars, facadeVars, waitVars, publisherImplVars, rtpsVars,
                   reader_samples, delivered, listenerVars, converted, awaiting,
                   lockVars>>

\* the create_* of the Participant is called and the guard is dropped
create_call(c) ==
    /\ caller[c] # "idle"
    /\ last_call' = Access(caller[c], CallerThread(c))
    /\ protocol_participant' = [mutex |-> None]
    /\ caller' = [caller EXCEPT ![c] = "idle"]
    /\ UNCHANGED <<thread_handle, resets_since_send>>
    /\ sent' = {}
    /\ UNCHANGED <<participant_alive, enabled, entityVars, ignoreVars, discoveryVars,
                   readerVars, facadeVars, waitVars, publisherImplVars, rtpsVars,
                   reader_samples, delivered, listenerVars, converted, awaiting,
                   lockVars>>

(***************************************************************************)
(* SpecProtocol: enable is called on one RtpsProtocol, the spawned threads *)
(* run, and an application thread calls create_*.                          *)
(***************************************************************************)
CreateOps == {"create_publisher", "create_subscriber", "create_writer", "create_reader"}

NextProtocol ==
    \/ RtpsProtocol_enable
    \/ \E i \in DOMAIN thread_handle : loop_lock(i)
    \/ \E i \in DOMAIN thread_handle : send_metatraffic(i)
    \/ \E i \in DOMAIN thread_handle : sleep(i)
    \/ \E i \in DOMAIN thread_handle : reset_discovery(i)
    \/ \E c \in Callers, op \in CreateOps : create_lock(c, op)
    \/ \E c \in Callers : create_call(c)

SpecProtocol == Init /\ [][NextProtocol]_vars

(***************************************************************************)
(* C1: delete_user_defined_publisher(h) on a publisher that still holds a  *)
(* data writer returns PreconditionNotMet and leaves the publisher in      *)
(* user_defined_publisher_list; it returns Ok exactly when the publisher   *)
(* is in the list with an empty data writer list, and then removes it.     *)
(***************************************************************************)
C1_delete_publisher_with_writers ==
    [][last_call'.op = "delete_user_defined_publisher" =>
         LET h == last_call'.handle
             listed == h \in DOMAIN user_defined_publisher_list
             has_writers == listed /\ user_defined_publisher_list[h].data_writer_list # {}
         IN /\ has_writers =>
                  /\ last_call'.ret = "PreconditionNotMet"
                  /\ user_defined_publisher_list' = user_defined_publisher_list
            /\ (last_call'.ret = "Ok") = (listed /\ ~has_writers)
            /\ last_call'.ret = "Ok" =>
                  /\ h \notin DOMAIN user_defined_publisher_list'
                  /\ user_defined_publisher_list' =
                         MapRemove(user_defined_publisher_list, h)
            /\ last_call'.ret \in {"Ok", "PreconditionNotMet"}]_vars

C1_witness ==
    /\ last_call.op = "delete_user_defined_publisher"
    /\ last_call.ret = "PreconditionNotMet"
    /\ last_call.handle \in DOMAIN user_defined_publisher_list
    /\ user_defined_publisher_list[last_call.handle].data_writer_list # {}

(***************************************************************************)
(* C2: no instance handle is given to two created entities, and no created *)
(* entity has the handle of a builtin entity, also once the u8 id counter  *)
(* has been incremented 256 times.                                         *)
(***************************************************************************)
C2_instance_handles_distinct ==
    \A h \in DOMAIN issued : issued[h] = 1 /\ h \notin BuiltinHandles

(***************************************************************************)
(* C3: a discovered participant whose lease_duration has passed without a  *)
(* new SPDP sample is no longer in discovered_participant_list: one tick   *)
(* after the end of the lease the participant is absent.                   *)
(***************************************************************************)
C3_lease_expiry_removes_participant ==
    \A h \in DOMAIN discovered_participant_list : elapsed[h] <= LeaseTicks

(***************************************************************************)
(* C4: an SPDP sample changes discovered_participant_list or the proxies   *)
(* of a builtin endpoint only if its domain_id is absent or the local one, *)
(* its domain_tag is the local one and its handle is not in                *)
(* ignored_participants; and then only the entry of its own handle.        *)
(***************************************************************************)
SpdpStep ==
    /\ last_call'.op = "process_metatraffic_rtps_message"
    /\ last_call'.msg.kind = "DCPSParticipant"

SpdpAccepted(data) ==
    /\ data.domain_id = {} \/ data.domain_id = {domain_id}
    /\ data.domain_tag = domain_tag
    /\ data.key \notin ignored_participants

C4_spdp_acceptance ==
    [][SpdpStep =>
         LET data == last_call'.msg
         IN /\ ~SpdpAccepted(data) =>
                  /\ discovered_participant_list' = discovered_participant_list
                  /\ builtin_matched' = builtin_matched
            /\ \A h \in DOMAIN discovered_participant_list' :
                  (h \notin DOMAIN discovered_participant_list
                   \/ discovered_participant_list'[h] # discovered_participant_list[h])
                  => SpdpAccepted(data) /\ h = data.key
            /\ DOMAIN discovered_participant_list \subseteq
                   DOMAIN discovered_participant_list']_vars

C4_witness ==
    /\ last_call.op = "process_metatraffic_rtps_message"
    /\ last_call.msg.kind = "DCPSParticipant"
    /\ last_call.msg.domain_id = {}
    /\ last_call.msg.domain_tag = domain_tag
    /\ last_call.msg.key \in ignored_participants
    /\ last_call.msg.key \in DOMAIN discovered_participant_list
    /\ discovered_participant_list[last_call.msg.key] # last_call.msg

(***************************************************************************)
(* C5: on an accepted SPDP sample each of the six builtin SEDP endpoints   *)
(* gets a proxy exactly when its bit is in available_builtin_endpoints: a  *)
(* reader proxy on the local announcer for a remote detector, a writer     *)
(* proxy on the local detector for a remote announcer, with the GUID made  *)
(* of the remote guid_prefix and the builtin entity id, and the remote     *)
(* metatraffic unicast and multicast locator lists.                        *)
(***************************************************************************)
BuiltinEndpointTable ==
    { [bit |-> "BUILTIN_ENDPOINT_PUBLICATIONS_DETECTOR", remote |-> "reader",
       local |-> "sedp_publications_announcer",
       entity_id |-> EntityId(<<0, 0, 3>>, "BUILT_IN_READER_WITH_KEY")],
      [bit |-> "BUILTIN_ENDPOINT_PUBLICATIONS_ANNOUNCER", remote |-> "writer",
       local |-> "sedp_publications_detector",
       entity_id |-> EntityId(<<0, 0, 3>>, "BUILT_IN_WRITER_WITH_KEY")],
      [bit |-> "BUILTIN_ENDPOINT_SUBSCRIPTIONS_DETECTOR", remote |-> "reader",
       local |-> "sedp_subscriptions_announcer",
       entity_id |-> EntityId(<<0, 0, 4>>, "BUILT_IN_READER_WITH_KEY")],
      [bit |-> "BUILTIN_ENDPOINT_SUBSCRIPTIONS_ANNOUNCER", remote |-> "writer",
       local |-> "sedp_subscriptions_detector",
       entity_id |-> EntityId(<<0, 0, 4>>, "BUILT_IN_WRITER_WITH_KEY")],
      [bit |-> "BUILTIN_ENDPOINT_TOPICS_DETECTOR", remote |-> "reader",
       local |-> "sedp_topics_announcer",
       entity_id |-> EntityId(<<0, 0, 2>>, "BUILT_IN_READER_WITH_KEY")],
      [bit |-> "BUILTIN_ENDPOINT_TOPICS_ANNOUNCER", remote |-> "writer",
       local |-> "sedp_topics_detector",
       entity_id |-> EntityId(<<0, 0, 2>>, "BUILT_IN_WRITER_WITH_KEY")] }

ExpectedProxy(row, data) ==
    IF row.remote = "reader"
    THEN [remote_reader_guid |-> [prefix |-> data.guid_prefix, entity_id |-> row.entity_id],
          unicast_locator_list |-> data.metatraffic_unicast_locator_list,
          multicast_locator_list |-> data.metatraffic_multicast_locator_list]
    ELSE [remote_writer_guid |-> [prefix |-> data.guid_prefix, entity_id |-> row.entity_id],
          unicast_locator_list |-> data.metatraffic_unicast_locator_list,
          multicast_locator_list |-> data.metatraffic_multicast_locator_list]

C5_builtin_endpoints_matched ==
    [][SpdpStep /\ SpdpAccepted(last_call'.msg) =>
         LET data == last_call'.msg
         IN /\ {row.local : row \in BuiltinEndpointTable} = DOMAIN builtin_matched'
            /\ \A row \in BuiltinEndpointTable :
                  builtin_matched'[row.local] =
                      builtin_matched[row.local] \cup
                          (IF row.bit \in data.available_builtin_endpoints
                           THEN {ExpectedProxy(row, data)} ELSE {})]_vars

C5_witness ==
    /\ last_call.op = "process_metatraffic_rtps_message"
    /\ last_call.msg.kind = "DCPSParticipant"
    /\ last_call.msg.key \in DOMAIN discovered_participant_list
    /\ discovered_participant_list[last_call.msg.key] = last_call.msg
    /\ "BUILTIN_ENDPOINT_TOPICS_ANNOUNCER" \in last_call.msg.available_builtin_endpoints
    /\ "BUILTIN_ENDPOINT_PUBLICATIONS_DETECTOR" \notin
           last_call.msg.available_builtin_endpoints
    /\ builtin_matched["sedp_topics_detector"] # {}
    /\ builtin_matched["sedp_publications_announcer"] = {}

(***************************************************************************)
(* C6: no add_matched_writer (add_matched_reader) request sent to a        *)
(* user-defined subscriber (publisher) carries a publication               *)
(* (subscription) whose key is in ignored_publications                     *)
(* (ignored_subcriptions) or whose GUID prefix is that of a participant in *)
(* ignored_participants; the discovered_topic_list entry of an ignored     *)
(* publication or subscription and the discovered_participant_list entry   *)
(* of an ignored participant do not change.                                *)
(***************************************************************************)
Entry(map, key) == IF key \in DOMAIN map THEN {map[key]} ELSE {}

C6_ignored_suppressed ==
    [][/\ \A m \in sent' :
             /\ m.kind = "add_matched_writer" =>
                   /\ m.data.key \notin ignored_publications
                   /\ ParticipantHandle(m.data.remote_guid_prefix) \notin ignored_participants
             /\ m.kind = "add_matched_reader" =>
                   /\ m.data.key \notin ignored_subcriptions
                   /\ ParticipantHandle(m.data.remote_guid_prefix) \notin ignored_participants
       /\ \A h \in ignored_publications \cup ignored_subcriptions :
             Entry(discovered_topic_list', h) = Entry(discovered_topic_list, h)
       /\ \A h \in ignored_participants :
             Entry(discovered_participant_list', h) = Entry(discovered_participant_list, h)
      ]_vars

C6_witness ==
    /\ last_call.op = "process_metatraffic_rtps_message"
    /\ user_defined_subscriber_list # EmptyMap
    /\ \E h \in ignored_publications :
          /\ h \in DOMAIN sedp_cache["DCPSPublication"]
          /\ sedp_cache["DCPSPublication"][h].instance_state = "Alive"
          /\ ParticipantHandle(sedp_cache["DCPSPublication"][h].remote_guid_prefix)
                 \in DOMAIN discovered_participant_list \ ignored_participants
          /\ h \notin DOMAIN discovered_topic_list
    /\ \E m \in sent : m.kind = "add_matched_writer"

(***************************************************************************)
(* C7: ignore_participant, ignore_subscription and ignore_publication on a *)
(* participant that is not enabled return NotEnabled and leave the three   *)
(* sets unchanged; on an enabled participant they return Ok and add the    *)
(* handle to their own set only (a second call changes nothing).           *)
(***************************************************************************)
IgnoreStep(op, set, set_after, others, others_after) ==
    last_call'.op = op =>
        IF enabled
        THEN /\ last_call'.ret = "Ok"
             /\ last_call'.handle \in set_after
             /\ set_after = set \cup {last_call'.handle}
             /\ others_after = others
        ELSE /\ last_call'.ret = "NotEnabled"
             /\ set_after = set
             /\ others_after = others

C7_ignore_requires_enabled ==
    [][/\ IgnoreStep("ignore_participant", ignored_participants, ignored_participants',
                     <<ignored_publications, ignored_subcriptions>>,
                     <<ignored_publications', ignored_subcriptions'>>)
       /\ IgnoreStep("ignore_subscription", ignored_subcriptions, ignored_subcriptions',
                     <<ignored_participants, ignored_publications>>,
                     <<ignored_participants', ignored_publications'>>)
       /\ IgnoreStep("ignore_publication", ignored_publications, ignored_publications',
                     <<ignored_participants, ignored_subcriptions>>,
                     <<ignored_participants', ignored_subcriptions'>>)]_vars

C7_witness ==
    /\ last_call.op = "ignore_subscription"
    /\ last_call.ret = "Ok"
    /\ last_call.handle \in ignored_subcriptions
    /\ ignored_participants # {}
    /\ ignored_publications # {}

(***************************************************************************)
(* C8: a DataReaderAsync::enable call that finds the reader disabled marks *)
(* it enabled, then writes one DiscoveredReaderData to the SEDP            *)
(* subscriptions announcer, then sends, and returns Ok; a call that finds  *)
(* the reader enabled returns Ok with no enable and no announcement.  The  *)
(* enable request leaves the reader enabled, and the number of             *)
(* announcements changes only by one, in the announce request of a call.   *)
(***************************************************************************)
Moved(t) == task'[t] # task[t]

C8_enable_announces_once ==
    [][/\ \A t \in Tasks :
             /\ Moved(t) /\ task'[t].op = "enable" /\ task'[t].pc = "done" =>
                   /\ task'[t].ret = "Ok"
                   /\ task'[t].events =
                          IF task'[t].is_enabled
                          THEN <<>>
                          ELSE <<"enable", "write_w_timestamp", "send_message">>
                   /\ task'[t].is_enabled =>
                          /\ reader_enabled' = reader_enabled
                          /\ announce_count' = announce_count
             /\ Moved(t) /\ task[t].pc = "enable" =>
                   /\ reader_enabled'
                   /\ announce_count' = announce_count
             /\ Moved(t) /\ task[t].op = "enable" /\ task[t].pc = "announce" =>
                   /\ reader_enabled
                   /\ announce_count' = announce_count + 1
       /\ announce_count' # announce_count =>
             /\ announce_count' = announce_count + 1
             /\ \E t \in Tasks : Moved(t) /\ task[t].pc = "announce"]_vars

C8_witness ==
    \E t, u \in Tasks :
        /\ task[t].op = "enable" /\ task[t].pc = "done" /\ ~task[t].is_enabled
        /\ task[t].events = <<"enable", "write_w_timestamp", "send_message">>
        /\ task[u].op = "enable" /\ task[u].pc = "done" /\ task[u].is_enabled
        /\ task[u].events = <<>>
        /\ announce_count = 1

(***************************************************************************)
(* C9: a DataReaderAsync::set_qos call that finds the reader enabled and   *)
(* whose QoS fails check_immutability against the reader's QoS returns     *)
(* ImmutablePolicy, having stored nothing and announced nothing; if the    *)
(* check passes it stores the QoS and then announces the reader; a call    *)
(* that finds the reader disabled stores the QoS, reads no current QoS and *)
(* announces nothing.                                                      *)
(***************************************************************************)
C9_set_qos_immutability ==
    [][\A t \in Tasks :
          /\ Moved(t) /\ task[t].pc = "get_qos" =>
                IF check_immutability(task[t].q, reader_qos)
                THEN task'[t].pc = "set_qos"
                ELSE /\ task'[t].pc = "done"
                     /\ task'[t].ret = "ImmutablePolicy"
                     /\ task'[t].events = <<>>
                     /\ UNCHANGED <<reader_qos, reader_enabled, announce_count, last_announced, extensionVars>>
          /\ Moved(t) /\ task[t].pc = "set_qos" =>
                /\ reader_qos' = task[t].q
                /\ announce_count' = announce_count
          /\ Moved(t) /\ task'[t].op = "set_qos" /\ task'[t].pc = "done" =>
                /\ task'[t].ret \in {"Ok", "ImmutablePolicy", "InconsistentPolicy"}
                /\ task'[t].ret = "ImmutablePolicy" => task'[t].is_enabled
                /\ task'[t].ret = "Ok" /\ task'[t].is_enabled =>
                      /\ check_immutability(task'[t].q, task'[t].current_qos)
                      /\ task'[t].events = <<"set_qos", "write_w_timestamp", "send_message">>
                /\ task'[t].ret = "Ok" /\ ~task'[t].is_enabled =>
                      /\ task'[t].current_qos = NoQos
                      /\ task'[t].events = <<"set_qos">>
                      /\ reader_qos' = task'[t].q]_vars

C9_witness ==
    \E t \in Tasks :
        /\ task[t].op = "set_qos" /\ task[t].pc = "done"
        /\ task[t].ret = "ImmutablePolicy"
        /\ reader_enabled
        /\ reader_qos # task[t].q
        /\ announce_count = 1

(***************************************************************************)
(* C10: a Specific(q) whose q is not consistent is answered with           *)
(* InconsistentPolicy by DataReaderAsync::set_qos,                         *)
(* DomainParticipantActor::set_default_topic_qos and Topic::set_qos, and   *)
(* the reader's QoS, the default topic QoS and the topic's QoS stay as     *)
(* they were.                                                              *)
(***************************************************************************)
Inconsistent(qos) == qos.kind = "Specific" /\ qos.q.history_depth = 0

C10_inconsistent_qos_rejected ==
    [][/\ last_call'.op = "set_qos_qos" =>
             \A t \in Tasks :
                 Moved(t) =>
                     /\ (task'[t].ret = "InconsistentPolicy") = Inconsistent(task'[t].qos)
                     /\ Inconsistent(task'[t].qos) =>
                           /\ task'[t].pc = "done"
                           /\ task'[t].events = <<>>
                     /\ UNCHANGED <<reader_qos, reader_enabled, announce_count,
                                    last_announced, default_topic_qos, topic_qos,
                                    extensionVars>>
       /\ last_call'.op \in {"set_default_topic_qos", "Topic::set_qos"}
          /\ Inconsistent(last_call'.qos) =>
             /\ last_call'.ret = "InconsistentPolicy"
             /\ UNCHANGED <<reader_qos, reader_enabled, announce_count,
                            last_announced, default_topic_qos, topic_qos,
                            extensionVars>>
       /\ \A t \in Tasks :
             task'[t].ret = "InconsistentPolicy" => Inconsistent(task'[t].qos)
       /\ last_call'.ret = "InconsistentPolicy" => Inconsistent(last_call'.qos)]_vars

C10_witness ==
    /\ last_call.op = "Topic::set_qos"
    /\ last_call.ret = "InconsistentPolicy"
    /\ topic_qos # Qos_default
    /\ default_topic_qos # Qos_default
    /\ task["t1"].op = "set_qos"
    /\ task["t1"].ret = "InconsistentPolicy"
    /\ reader_qos # Qos_default

C12_outlived_handle_already_deleted ==
    [][/\ (/\ last_call'.op = "Publisher::delete_datawriter"
           /\ ~publisher_impl[last_call'.msg.publisher].alive)
          => /\ last_call'.ret = "AlreadyDeleted"
             /\ UNCHANGED publisherImplVars
       /\ (/\ last_call'.op = "Publisher::create_datawriter"
           /\ ~publisher_impl[last_call'.msg.publisher].alive)
          => /\ last_call'.ret = "None"
             /\ UNCHANGED publisherImplVars
       /\ (/\ last_call'.op \in TopicGetters \cup {"Topic::set_qos"}
           /\ ~rtps_topic_valid)
          => /\ last_call'.ret = "AlreadyDeleted"
             /\ UNCHANGED facadeVars]_vars

(***************************************************************************)
(* C13: Publisher::delete_datawriter on a live publisher, given a writer   *)
(* of this publisher's data_writer_list, returns Ok and removes exactly    *)
(* that writer, the others keeping their order; given a live writer of     *)
(* another publisher it returns PreconditionNotMet and changes nothing;    *)
(* given a writer already deleted it returns AlreadyDeleted and changes    *)
(* nothing.                                                                *)
(***************************************************************************)
DeleteDataWriterStep ==
    /\ last_call'.op = "Publisher::delete_datawriter"
    /\ publisher_impl[last_call'.msg.publisher].alive

InList(list, writer) == \E i \in DOMAIN list : list[i] = writer

C13_delete_datawriter ==
    [][DeleteDataWriterStep =>
         LET publisher == last_call'.msg.publisher
             writer == last_call'.msg.writer
             list == publisher_impl[publisher].data_writer_list
         IN IF InList(list, writer)
            THEN /\ last_call'.ret = "Ok"
                 /\ publisher_impl' =
                        [publisher_impl EXCEPT ![publisher].data_writer_list =
                            SelectSeq(list, LAMBDA x : x # writer)]
                 /\ UNCHANGED data_writer_impl
            ELSE /\ last_call'.ret = IF data_writer_impl_upgrade(writer)
                                     THEN "PreconditionNotMet" ELSE "AlreadyDeleted"
                 /\ UNCHANGED publisherImplVars]_vars

\* a writer that is not the first of its publisher's list has been deleted
C13_witness ==
    /\ last_call.op = "Publisher::delete_datawriter"
    /\ last_call.ret = "Ok"
    /\ LET list == publisher_impl[last_call.msg.publisher].data_writer_list
       IN list # <<>> /\ list[1] < last_call.msg.writer

\* C13 as stated: every writer that is not in the list, deleted ones included,
\* gets PreconditionNotMet
C13_not_in_list_precondition_not_met ==
    [][(/\ DeleteDataWriterStep
        /\ ~InList(publisher_impl[last_call'.msg.publisher].data_writer_list,
                   last_call'.msg.writer))
       => /\ last_call'.ret = "PreconditionNotMet"
          /\ UNCHANGED publisherImplVars]_vars


(***************************************************************************)
(* C14: an entity created with QosKind::Default gets the default QoS in    *)
(* effect when it is created, one created with Specific(q) gets q: a data  *)
(* writer its publisher's default_data_writer_qos, a publisher, subscriber *)
(* or topic the participant's default_publisher_qos, default_subscriber_   *)
(* qos or default_topic_qos.  A set_default_*_qos(Specific(q)) that        *)
(* returns Ok makes q the default that get_default_*_qos returns, and      *)
(* set_default_*_qos(Default) resets it to the type's initial default.     *)
(***************************************************************************)
Chosen(qos, default) == IF qos.kind = "Default" THEN default ELSE qos.q

C15_delete_contained_entities ==
    [][(last_call'.op = "delete_contained_entities" /\ last_call'.ret = "Ok") =>
         /\ is_empty'
         /\ \A publisher \in DOMAIN user_defined_publisher_list :
                /\ [kind |-> "delete_contained_entities", to |-> publisher] \in sent'
                /\ \A handle \in DataWriterHandles(publisher) :
                       [kind |-> "dispose_w_timestamp",
                        to |-> InstanceHandle(Guid(LocalPrefix,
                                   ENTITYID_SEDP_BUILTIN_PUBLICATIONS_ANNOUNCER)),
                        handle |-> handle] \in sent'
         /\ \A subscriber \in DOMAIN user_defined_subscriber_list :
                /\ [kind |-> "delete_contained_entities", to |-> subscriber] \in sent'
                /\ \A handle \in DataReaderHandles(subscriber) :
                       [kind |-> "dispose_w_timestamp",
                        to |-> InstanceHandle(Guid(LocalPrefix,
                                   ENTITYID_SEDP_BUILTIN_SUBSCRIPTIONS_ANNOUNCER)),
                        handle |-> handle] \in sent']_vars

\* delete_contained_entities has returned Ok after disposing a writer and a reader
C15_witness ==
    /\ last_call.op = "delete_contained_entities"
    /\ last_call.ret = "Ok"
    /\ is_empty
    /\ \E m \in sent : /\ m.kind = "dispose_w_timestamp"
                       /\ m.handle[5] = "USER_DEFINED_WRITER_WITH_KEY"
    /\ \E m \in sent : /\ m.kind = "dispose_w_timestamp"
                       /\ m.handle[5] = "USER_DEFINED_READER_WITH_KEY"
    /\ user_defined_topic_counter > 0


(***************************************************************************)
(* C16: every receive_data call, whatever the source prefix, reader_id,    *)
(* writer_sn and flags, adds exactly one change to the reader cache, with  *)
(* writer GUID (source prefix, writer_id), sequence number writer_sn, kind *)
(* ALIVE for flags (true, false) and NOT_ALIVE_DISPOSED for (false, true). *)
(* The code does not do so for flags (true, true) and (false, false).      *)
(***************************************************************************)
C16_receive_data_adds_one_change ==
    [][last_call'.op = "receive_data" =>
         LET data == last_call'.msg.data
             added == reader_cache'[Len(reader_cache')]
         IN /\ Len(reader_cache') = Len(reader_cache) + 1
            /\ SubSeq(reader_cache', 1, Len(reader_cache)) = reader_cache
            /\ added.writer_guid = Guid(last_call'.msg.source_guid_prefix, data.writer_id)
            /\ added.sequence_number = data.writer_sn
            /\ (data.data_flag /\ ~data.key_flag) => added.kind = "Alive"
            /\ (~data.data_flag /\ data.key_flag) => added.kind = "NotAliveDisposed"]_vars


(***************************************************************************)
(* C17: the results of next() since into_iter are, in increasing order and *)
(* each once, base + i for the bits i in 0..255 set in the bitmap (bit 31  *)
(* of a word included), and None from then on.                             *)
(***************************************************************************)
SetBits(set) == {i \in 0..(BitmapBits - 1) : (i % WordBits) \in set.bitmap[i \div WordBits]}

Kth(S, k) == CHOOSE x \in S : Cardinality({y \in S : y < x}) = k - 1

C17_iterator_yields_set_bits ==
    iterator.status = "Some" =>
        LET S == SetBits(iterator.set)
        IN \A k \in 1..Len(yielded) :
               yielded[k] = IF k <= Cardinality(S)
                            THEN Some(iterator.set.base + Kth(S, k))
                            ELSE None

\* a set with bit 31 of a word and two more bits was iterated to the end and beyond
C17_witness ==
    /\ iterator.status = "Some"
    /\ Cardinality(SetBits(iterator.set)) = 3
    /\ \E i \in SetBits(iterator.set) : i % WordBits = WordBits - 1
    /\ Len(yielded) = 5
    /\ yielded[3] # None
    /\ yielded[4] = None
    /\ yielded[5] = None

(***************************************************************************)
(* C18: a set collected from a non-empty input has the first element as    *)
(* base, bit 0 set, and bit (v - base) set for every later element v that  *)
(* the 256 bits can hold (no other bit when they hold every element);      *)
(* a set collected from an empty input has base 0 and an all-zero bitmap.  *)
(***************************************************************************)
InCapacity(numbers) ==
    \A k \in 2..Len(numbers) :
        numbers[k] - numbers[1] >= 0 /\ numbers[k] - numbers[1] < BitmapBits

C18_from_iter ==
    last_call.op = "from_iter" =>
        /\ InCapacity(sequence_numbers) => sequence_number_set.status = "Some"
        /\ sequence_number_set.status = "Some" =>
               IF sequence_numbers = <<>>
               THEN /\ sequence_number_set.base = 0
                    /\ SetBits(sequence_number_set) = {}
               ELSE /\ sequence_number_set.base = sequence_numbers[1]
                    /\ 0 \in SetBits(sequence_number_set)
                    /\ \A k \in 2..Len(sequence_numbers) :
                           LET offset == sequence_numbers[k] - sequence_numbers[1]
                           IN (offset >= 0 /\ offset < BitmapBits) =>
                                  offset \in SetBits(sequence_number_set)
                    /\ InCapacity(sequence_numbers) =>
                           SetBits(sequence_number_set) =
                               {0} \cup {sequence_numbers[k] - sequence_numbers[1] :
                                            k \in 2..Len(sequence_numbers)}

\* a base and two later numbers in different words were collected
C18_witness ==
    /\ last_call.op = "from_iter"
    /\ sequence_number_set.status = "Some"
    /\ Len(sequence_numbers) = 3
    /\ InCapacity(sequence_numbers)
    /\ sequence_number_set.bitmap[0] = {0, 2}
    /\ sequence_number_set.bitmap[2] = {0}

(***************************************************************************)
(* C19: from_iter panics, and returns no set, whenever an element is below *)
(* the first element or at least 256 above it.  The code returns a set for *)
(* the offsets -1..-31 in a build without overflow checks.                 *)
(***************************************************************************)
C19_out_of_capacity_panics ==
    (last_call.op = "from_iter" /\ ~InCapacity(sequence_numbers)) =>
        sequence_number_set.status = "Panic"


(***************************************************************************)
(* C20: when a metatraffic message with several samples is processed, the  *)
(* samples that cannot be processed (payload not deserializable, SPDP      *)
(* sample without data) change nothing, and the others are all handled, in *)
(* order: discovered_participant_list and the builtin matches are what     *)
(* handling the processable SPDP samples one after the other gives, and    *)
(* discovered_topic_list and the requests to match are what the            *)
(* processable SEDP samples returned by the read give.                     *)
(***************************************************************************)
ProcessableSpdp(sample) == sample.kind = "DCPSParticipant" /\ deserialize_data_is_ok(sample)

RECURSIVE HandledInOrder(_, _)
HandledInOrder(discovery, samples) ==
    IF samples = <<>> THEN discovery
    ELSE HandledInOrder(process_discovered_participant_data(discovery, Head(samples)),
                        Tail(samples))

C20_unprocessable_samples_skipped ==
    [][last_call'.op = "process_metatraffic_rtps_submessages" =>
         LET submessages == last_call'.msg.submessages
             handled == HandledInOrder([matched |-> builtin_matched,
                                        list |-> discovered_participant_list,
                                        accepted |-> {}],
                                       SelectSeq(submessages, ProcessableSpdp))
             read == {sample \in Samples(sedp_cache'["DCPSPublication"]) :
                         deserialize_data_is_ok(sample)}
             matched == Collect({add_matched_writer(sample, discovered_participant_list') :
                                    sample \in read})
         IN /\ discovered_participant_list' = handled.list
            /\ builtin_matched' = handled.matched
            /\ discovered_topic_list' = InsertAll(discovered_topic_list, matched.topics)
            /\ sent' = matched.sent
            /\ \A k \in 1..Len(submessages) :
                   (/\ submessages[k].kind = "DCPSPublication"
                    /\ deserialize_data_is_ok(submessages[k])
                    /\ \A later \in (k + 1)..Len(submessages) :
                           submessages[later].key # submessages[k].key)
                   => submessages[k] \in read]_vars

\* a message whose first sample could not be processed and whose second sample,
\* of the same participant, was handled, with a writer of that participant matched
C20_witness ==
    /\ last_call.op = "process_metatraffic_rtps_submessages"
    /\ Len(last_call.msg.submessages) = 2
    /\ ~deserialize_data_is_ok(last_call.msg.submessages[1])
    /\ ProcessableSpdp(last_call.msg.submessages[2])
    /\ last_call.msg.submessages[1].key = last_call.msg.submessages[2].key
    /\ ParticipantHandle("p1") \in DOMAIN discovered_participant_list
    /\ discovered_participant_list[ParticipantHandle("p1")] = last_call.msg.submessages[2]
    /\ \E m \in sent : m.kind = "add_matched_writer"


(***************************************************************************)
(* C21: read_next_sample and take_next_sample on an enabled reader return  *)
(* NoData, changing nothing, when the reader has no NOT_READ sample; when  *)
(* it has one they return Ok with one NOT_READ sample of the reader,       *)
(* whatever its view and instance state, which read marks READ and take    *)
(* removes, every other sample staying as it was.  They never panic.       *)
(***************************************************************************)
NotReadSamples(samples) == {i \in 1..Len(samples) : samples[i].sample_state = "NotRead"}

C21_next_sample ==
    [][(last_call'.op \in {"read_next_sample", "take_next_sample"} /\ reader_enabled) =>
         /\ last_call'.ret \in {"Ok", "NoData"}
         /\ last_call'.ret = "NoData" <=> NotReadSamples(reader_samples) = {}
         /\ last_call'.ret = "NoData" => reader_samples' = reader_samples
         /\ last_call'.ret = "Ok" =>
                \E i \in NotReadSamples(reader_samples) :
                    /\ last_call'.msg.sample = reader_samples[i]
                    /\ IF last_call'.op = "read_next_sample"
                       THEN /\ Len(reader_samples') = Len(reader_samples)
                            /\ reader_samples'[i].sample_state = "Read"
                            /\ reader_samples'[i].data = reader_samples[i].data
                            /\ \A j \in 1..Len(reader_samples) :
                                   j # i => reader_samples'[j] = reader_samples[j]
                       ELSE reader_samples' =
                                SubSeq(reader_samples, 1, i - 1)
                                \o SubSeq(reader_samples, i + 1, Len(reader_samples))]_vars

\* a take_next_sample has returned a disposed instance's sample and left a read one
C21_witness ==
    /\ last_call.op = "take_next_sample"
    /\ last_call.ret = "Ok"
    /\ last_call.msg.sample.instance_state = "NotAliveDisposed"
    /\ Len(reader_samples) = 1
    /\ reader_samples[1].sample_state = "Read"


(***************************************************************************)
(* C22: delete_user_defined_subscriber of a listed subscriber that still   *)
(* has data readers returns PreconditionNotMet and keeps it;               *)
(* delete_user_defined_topic of a listed topic returns PreconditionNotMet  *)
(* and keeps it when a publisher has a data writer, or a subscriber a data *)
(* reader, on a topic of that name; otherwise each returns Ok and removes  *)
(* exactly that entry.                                                     *)
(***************************************************************************)
Attached(topic_name) ==
    \/ \E p \in DOMAIN user_defined_publisher_list :
           \E w \in user_defined_publisher_list[p].data_writer_list :
               w.topic_name = topic_name
    \/ \E s \in DOMAIN user_defined_subscriber_list :
           \E r \in user_defined_subscriber_list[s].data_reader_list :
               r.topic_name = topic_name

C22_delete_subscriber_and_topic ==
    [][/\ (/\ last_call'.op = "delete_user_defined_subscriber"
           /\ last_call'.handle \in DOMAIN user_defined_subscriber_list) =>
              IF user_defined_subscriber_list[last_call'.handle].data_reader_list # {}
              THEN /\ last_call'.ret = "PreconditionNotMet"
                   /\ user_defined_subscriber_list' = user_defined_subscriber_list
              ELSE /\ last_call'.ret = "Ok"
                   /\ user_defined_subscriber_list' =
                          MapRemove(user_defined_subscriber_list, last_call'.handle)
       /\ (/\ last_call'.op = "delete_user_defined_topic"
           /\ last_call'.handle \in DOMAIN user_defined_topic_list) =>
              IF Attached(user_defined_topic_list[last_call'.handle].name)
              THEN /\ last_call'.ret = "PreconditionNotMet"
                   /\ user_defined_topic_list' = user_defined_topic_list
              ELSE /\ last_call'.ret = "Ok"
                   /\ user_defined_topic_list' =
                          MapRemove(user_defined_topic_list, last_call'.handle)]_vars

\* a topic was kept because a data reader is on a topic of its name while no
\* data writer is, next to a second topic
C22_witness ==
    /\ last_call.op = "delete_user_defined_topic"
    /\ last_call.ret = "PreconditionNotMet"
    /\ last_call.handle \in DOMAIN user_defined_topic_list
    /\ Cardinality(DOMAIN user_defined_topic_list) = 2
    /\ \A p \in DOMAIN user_defined_publisher_list :
           user_defined_publisher_list[p].data_writer_list = {}
    /\ Attached(user_defined_topic_list[last_call.handle].name)

(***************************************************************************)
(* C23: delete_user_defined_publisher, _subscriber and _topic with a       *)
(* handle that is not in the corresponding list return PreconditionNotMet, *)
(* and whenever one of them returns PreconditionNotMet the three lists are *)
(* unchanged; after an Ok the handle is no longer listed, so a second      *)
(* delete of the same entity fails.                                        *)
(***************************************************************************)
ListOf(op) ==
    IF op = "delete_user_defined_publisher" THEN user_defined_publisher_list
    ELSE IF op = "delete_user_defined_subscriber" THEN user_defined_subscriber_list
    ELSE user_defined_topic_list

DeleteOps ==
    {"delete_user_defined_publisher", "delete_user_defined_subscriber",
     "delete_user_defined_topic"}

C23_delete_unknown_handle ==
    [][last_call'.op \in DeleteOps =>
         /\ last_call'.handle \notin DOMAIN ListOf(last_call'.op) =>
                last_call'.ret = "PreconditionNotMet"
         /\ last_call'.ret = "PreconditionNotMet" =>
                /\ user_defined_publisher_list' = user_defined_publisher_list
                /\ user_defined_subscriber_list' = user_defined_subscriber_list
                /\ user_defined_topic_list' = user_defined_topic_list
         /\ last_call'.ret = "Ok" =>
                /\ last_call'.handle \in DOMAIN ListOf(last_call'.op)
                /\ \A op \in DeleteOps :
                       last_call'.op = op =>
                           last_call'.handle \notin DOMAIN ListOf(op)']_vars

\* the second delete of a subscriber that was created and deleted has failed
C23_witness ==
    /\ last_call.op = "delete_user_defined_subscriber"
    /\ last_call.ret = "PreconditionNotMet"
    /\ last_call.handle \in DOMAIN issued
    /\ last_call.handle = SubscriberHandle(0)
    /\ user_defined_subscriber_list = EmptyMap


(***************************************************************************)
(* C24: after process_metatraffic_rtps_message, for every Alive            *)
(* DiscoveredWriterData sample the publications detector holds whose key   *)
(* and participant are not ignored and whose participant is in             *)
(* discovered_participant_list, an add_matched_writer request with that    *)
(* participant's default unicast and multicast locators went to every      *)
(* user-defined subscriber and the writer's topic data is in               *)
(* discovered_topic_list under the writer's handle; the same for           *)
(* DiscoveredReaderData and the user-defined publishers; the match         *)
(* requests go to user-defined publishers and subscribers only.            *)
(***************************************************************************)
Matchable(sample, ignored_endpoints) ==
    /\ sample.instance_state = "Alive"
    /\ deserialize_data_is_ok(sample)
    /\ sample.key \notin ignored_endpoints
    /\ ParticipantHandle(sample.remote_guid_prefix) \notin ignored_participants

Walked(sample, kind, targets, requests, participants, topics) ==
    LET participant == participants[ParticipantHandle(sample.remote_guid_prefix)]
    IN /\ \A target \in targets :
              \E m \in requests :
                  /\ m.kind = kind
                  /\ m.to = target
                  /\ m.data = sample
                  /\ m.default_unicast_locator_list =
                         participant.default_unicast_locator_list
                  /\ m.default_multicast_locator_list =
                         participant.default_multicast_locator_list
       /\ sample.key \in DOMAIN topics
       /\ topics[sample.key] = TopicBuiltinTopicData(sample.topic_name)

UserDefinedEntities ==
    DOMAIN user_defined_subscriber_list \cup DOMAIN user_defined_publisher_list

C25_message_routing ==
    [][/\ last_call'.op = "process_metatraffic_rtps_message" =>
              /\ Len(delivered') = 2
              /\ delivered'[1] = [kind |-> "process_rtps_message", to |-> builtin_subscriber]
              /\ delivered'[2] = [kind |-> "process_rtps_message", to |-> builtin_publisher]
              /\ \A i \in DOMAIN delivered' : delivered'[i].to \notin UserDefinedEntities
       /\ last_call'.op = "process_user_defined_rtps_message" =>
              /\ Len(delivered') = 2 * Cardinality(UserDefinedEntities)
              /\ \A entity \in UserDefinedEntities :
                     \E i \in DOMAIN delivered' :
                         /\ i % 2 = 1
                         /\ delivered'[i] = [kind |-> "process_rtps_message", to |-> entity]
              /\ \A i \in DOMAIN delivered' :
                     /\ delivered'[i].to \in UserDefinedEntities
                     /\ delivered'[i].to \notin {builtin_subscriber, builtin_publisher}
                     /\ i % 2 = 1 =>
                            /\ delivered'[i].kind = "process_rtps_message"
                            /\ delivered'[i + 1] =
                                   [kind |-> "send_message", to |-> delivered'[i].to]]_vars

\* a user-defined message went to two subscribers and a publisher
C25_witness ==
    /\ last_call.op = "process_user_defined_rtps_message"
    /\ Cardinality(DOMAIN user_defined_subscriber_list) = 2
    /\ user_defined_publisher_list # EmptyMap
    /\ Len(delivered) >= 6


(***************************************************************************)
(* C26: every add_matched_reader request carries the participant           *)
(* listener's address as the PublicationMatched listener iff status_kind   *)
(* contains PublicationMatched, and as the OfferedIncompatibleQos listener *)
(* iff it contains OfferedIncompatibleQos; every remove_matched_reader     *)
(* request carries it as the PublicationMatched listener iff status_kind   *)
(* contains PublicationMatched; set_listener(l, mask) makes l the listener *)
(* and mask the status_kind of the matches that follow.                    *)
(***************************************************************************)
Offered(status) == IF status \in status_kind THEN Some(listener) ELSE None

C26_listener_offered_by_mask ==
    [][/\ last_call'.op = "process_metatraffic_rtps_message" =>
              \A m \in sent' :
                  /\ m.kind \in {"add_matched_reader", "remove_matched_reader"} =>
                         m.participant_publication_matched_listener =
                             Offered("PublicationMatched")
                  /\ m.kind = "add_matched_reader" =>
                         m.offered_incompatible_qos_participant_listener =
                             Offered("OfferedIncompatibleQos")
       /\ last_call'.op = "set_listener" =>
              /\ listener' = last_call'.msg.listener
              /\ status_kind' = last_call'.msg.status_kind
       /\ last_call'.op # "set_listener" => UNCHANGED <<listener, status_kind>>]_vars

\* a reader was unmatched with the listener l1 set and PublicationMatched not
\* in the mask
C26_witness ==
    /\ last_call.op = "process_metatraffic_rtps_message"
    /\ listener = "l1"
    /\ status_kind = {"OfferedIncompatibleQos"}
    /\ \E m \in sent :
          /\ m.kind = "remove_matched_reader"
          /\ m.participant_publication_matched_listener = None


(***************************************************************************)
(* C27: a SequenceNumber is a signed 64-bit counter: an i64 converted to a *)
(* SequenceNumber and back is the same i64 (the addition never overflows); *)
(* a SequenceNumber converted to i64 and back has the same high and low;   *)
(* the order of two sequence numbers is the order of their i64 values; and *)
(* SEQUENCE_NUMBER_UNKNOWN is below every sequence number that is >= 0.    *)
(***************************************************************************)
C27_sequence_number_is_i64 ==
    /\ converted.op = "from" =>
           /\ Into_i64(converted.result) = [value |-> converted.value, overflow |-> FALSE]
           /\ ~is_negative(converted.value) =>
                  SequenceNumber_cmp(SEQUENCE_NUMBER_UNKNOWN, converted.result) = "Less"
    /\ converted.op = "into" =>
           /\ ~converted.result.overflow
           /\ From_i64(converted.result.value) = converted.self
    /\ converted.op = "cmp" => converted.result = i64_cmp(converted.a, converted.b)

\* a sequence number whose low half has its top bit set and whose high half is
\* negative came back from i64
C27_witness ==
    /\ converted.op = "from"
    /\ converted.result.low[1] = 65535
    /\ converted.result.high[1] = 32768
    /\ Into_i64(converted.result).value = converted.value


(***************************************************************************)
(* C28: when a non-empty, non-decreasing list whose elements are all less  *)
(* than 256 above the first has been collected and the set iterated to the *)
(* end, the iteration yielded the list without its duplicates, in          *)
(* increasing order, and collecting what it yielded gives the same base    *)
(* and bitmap.                                                             *)
(***************************************************************************)
NonDecreasing(numbers) == \A k \in 2..Len(numbers) : numbers[k - 1] <= numbers[k]

RECURSIVE Deduplicated(_)
Deduplicated(numbers) ==
    IF Len(numbers) <= 1 THEN numbers
    ELSE IF numbers[1] = numbers[2] THEN Deduplicated(Tail(numbers))
    ELSE <<numbers[1]>> \o Deduplicated(Tail(numbers))

YieldedNumbers ==
    LET somes == {k \in 1..Len(yielded) : yielded[k] # None}
    IN [k \in 1..Cardinality(somes) |-> yielded[Kth(somes, k)].value]

C28_collect_iterate_round_trip ==
    (/\ iterator.status = "Some"
     /\ \E k \in 1..Len(yielded) : yielded[k] = None
     /\ sequence_numbers # <<>>
     /\ NonDecreasing(sequence_numbers)
     /\ InCapacity(sequence_numbers)) =>
        /\ YieldedNumbers = Deduplicated(sequence_numbers)
        /\ \A k \in 2..Len(YieldedNumbers) : YieldedNumbers[k - 1] < YieldedNumbers[k]
        /\ \A overflow_checks \in OverflowChecks :
               LET again == from_iter(YieldedNumbers, overflow_checks)
               IN /\ again.status = "Some"
                  /\ again.base = iterator.set.base
                  /\ again.bitmap = iterator.set.bitmap

\* a list of three with a duplicate and an element in bit 31 of a word was
\* collected and iterated to the end
C28_witness ==
    /\ iterator.status = "Some"
    /\ \E k \in 1..Len(yielded) : yielded[k] = None
    /\ Len(sequence_numbers) = 3
    /\ NonDecreasing(sequence_numbers)
    /\ sequence_numbers[2] = sequence_numbers[3]
    /\ sequence_numbers[3] = sequence_numbers[1] + 31
    /\ Len(YieldedNumbers) = 2


(***************************************************************************)
(* C29: when the enable calls of two tasks both found the reader disabled, *)
(* so that they ran concurrently, and both have returned, the reader is    *)
(* enabled and exactly one of them has announced its DiscoveredReaderData. *)
(***************************************************************************)
Returned == \A t \in Tasks : task[t].pc \in {"idle", "done"}

Announced(t) == \E k \in 1..Len(task[t].events) : task[t].events[k] = "write_w_timestamp"

C29_concurrent_enable_announces_once ==
    (Returned /\ \A t \in Tasks : task[t].op = "enable" /\ ~task[t].is_enabled) =>
        /\ reader_enabled
        /\ Cardinality({t \in Tasks : Announced(t)}) = 1

(***************************************************************************)
(* C30: every QoS that set_qos stores in an enabled reader passes          *)
(* check_immutability against the QoS it replaces, and when every call has *)
(* returned and the reader is enabled, the DiscoveredReaderData announced  *)
(* last carries the reader's QoS.                                          *)
(***************************************************************************)
C30_set_qos_enable_interleaved ==
    [][/\ (last_call'.op = "set_qos_set_qos" /\ reader_enabled) =>
              check_immutability(reader_qos', reader_qos)
       /\ (Returned' /\ reader_enabled') => last_announced' = reader_qos']_vars


(***************************************************************************)
(* C31: whenever delete_user_defined_publisher removes a publisher, the    *)
(* publisher contains no data writer at the moment of the removal, and     *)
(* whenever delete_user_defined_subscriber removes a subscriber, the       *)
(* subscriber contains no data reader at that moment.                      *)
(***************************************************************************)
C31_removed_entity_is_empty ==
    [][/\ (last_call'.op = "delete_user_defined_publisher" /\ last_call'.ret = "Ok") =>
              user_defined_publisher_list[last_call'.handle].data_writer_list = {}
       /\ (last_call'.op = "delete_user_defined_subscriber" /\ last_call'.ret = "Ok") =>
              user_defined_subscriber_list[last_call'.handle].data_reader_list = {}]_vars


(***************************************************************************)
(* C32: every send_metatraffic, reset_discovery and create_* is called by  *)
(* the thread that holds the participant's mutex, and when                 *)
(* send_metatraffic is called after an earlier send_metatraffic, exactly   *)
(* one reset_discovery has been called in between.                         *)
(***************************************************************************)
C32_discovery_alternates ==
    [][/\ last_call'.msg # NoMessage =>
              last_call'.msg.holder = Some(last_call'.msg.by)
       /\ (last_call'.op = "send_metatraffic" /\ resets_since_send # None) =>
              resets_since_send = Some(1)]_vars



(***************************************************************************)
(* C33: concurrent Publisher::create_datawriter and                        *)
(* Publisher::delete_datawriter on one PublisherImpl never deadlock: a     *)
(* thread that waits for a mutex holds only mutexes that come earlier in   *)
(* the order default_data_writer_qos, protocol_publisher,                  *)
(* data_writer_list, and while some thread is inside a call some thread    *)
(* inside a call can take a step.  They are linearizable on                *)
(* data_writer_list: once every call has returned, the list holds exactly  *)
(* the writers created and not successfully deleted, each once.            *)
(***************************************************************************)
\* the mutexes that come before a mutex in the order the locks are taken in
Before(mutex) ==
    CASE mutex = "default_data_writer_qos" -> {}
      [] mutex = "protocol_publisher" -> {"default_data_writer_qos"}
      [] OTHER -> {"default_data_writer_qos", "protocol_publisher"}

Blocked(t) == Wanted(t) \in Mutexes /\ publisher_mutex[Wanted(t)] # None

InsideCall(t) == publisher_thread[t].pc # "idle"

CreatedWriters == UNION {publisher_thread[t].created : t \in PublisherThreads}

DeletedWriters == UNION {publisher_thread[t].deleted : t \in PublisherThreads}

C33_create_delete_datawriter_concurrent ==
    LET data_writer_list == publisher_impl[SharedPublisher].data_writer_list
        listed == {data_writer_list[i] : i \in DOMAIN data_writer_list}
    IN /\ \A t \in PublisherThreads :
              Wanted(t) \in Mutexes => Held(t) \subseteq Before(Wanted(t))
       /\ (\E t \in PublisherThreads : InsideCall(t))
              => \E t \in PublisherThreads : InsideCall(t) /\ ~Blocked(t)
       /\ (\A t \in PublisherThreads : ~InsideCall(t))
              => /\ listed = CreatedWriters \ DeletedWriters
                 /\ Cardinality(listed) = Len(data_writer_list)
                 /\ \A m \in Mutexes : publisher_mutex[m] = None

\* a thread inside delete_datawriter waits for data_writer_list while the other
\* thread holds it inside create_datawriter, after an earlier delete has succeeded
C33_witness ==
    \E t, u \in PublisherThreads :
        /\ publisher_thread[t].pc = "push"
        /\ publisher_thread[u].op = "delete_datawriter"
        /\ Blocked(u)
        /\ DeletedWriters # {}
        /\ publisher_impl[SharedPublisher].data_writer_list # <<>>


(***************************************************************************)
(* C34: delete_user_defined_publisher, delete_user_defined_subscriber,     *)
(* delete_user_defined_topic and delete_contained_entities change none of  *)
(* discovered_participant_list, discovered_topic_list, the ignored sets,   *)
(* the enabled flag, the default QoS values and the three id counters, and *)
(* a create never returns the handle of an entity that was created and     *)
(* deleted before it.                                                      *)
(***************************************************************************)
DeleteFrame ==
    <<discovered_participant_list, discovered_topic_list, ignoreVars, enabled,
      default_publisher_qos, default_subscriber_qos, default_topic_qos,
      user_defined_publisher_counter, user_defined_subscriber_counter,
      user_defined_topic_counter>>

\* the handle was returned by an earlier create and its entity has been deleted
Deleted(handle) ==
    /\ handle \in DOMAIN issued
    /\ handle \notin DOMAIN user_defined_publisher_list
    /\ handle \notin DOMAIN user_defined_subscriber_list
    /\ handle \notin DOMAIN user_defined_topic_list

C34_delete_frame_and_ids ==
    [][/\ last_call'.op \in DeleteOps \cup {"delete_contained_entities"}
              => DeleteFrame' = DeleteFrame
       /\ (last_call'.op \in {"create_user_defined_publisher",
                              "create_user_defined_subscriber",
                              "create_user_defined_topic"}
           /\ last_call'.ret = "Ok")
              => ~Deleted(last_call'.handle)]_vars


(***************************************************************************)
(* C35: delete_contained_entities is all-or-nothing: when it returns an    *)
(* error because a dispose of a deleted data writer or data reader has     *)
(* failed, the three user-defined lists and the data writers and data      *)
(* readers of their publishers and subscribers are the same as before the  *)
(* call.                                                                   *)
(***************************************************************************)
C35_delete_contained_entities_all_or_nothing ==
    [][(last_call'.op = "delete_contained_entities" /\ last_call'.ret = "Error")
           => /\ user_defined_publisher_list' = user_defined_publisher_list
              /\ user_defined_subscriber_list' = user_defined_subscriber_list
              /\ user_defined_topic_list' = user_defined_topic_list]_vars


(***************************************************************************)
(* C36: an SEDP endpoint announced before its participant is not lost.  A  *)
(* DiscoveredWriterData (DiscoveredReaderData) sample whose participant is *)
(* not in discovered_participant_list after a metatraffic message is       *)
(* neither forwarded nor recorded in discovered_topic_list by that         *)
(* message, and the message with which the participant's SPDP sample is    *)
(* accepted forwards every such sample the detector holds to every         *)
(* user-defined subscriber (publisher).  C36_early_endpoint_forwarded is   *)
(* the statement for every sample; C36_early_endpoint_not_ignored_forwarded*)
(* forwards the samples whose publication (subscription) is not ignored.   *)
(***************************************************************************)
EndpointData(sample) == sample.instance_state = "Alive" /\ deserialize_data_is_ok(sample)

Forwarded(sample, kind, targets, requests) ==
    \A target \in targets :
        \E m \in requests : m.kind = kind /\ m.to = target /\ m.data = sample

\* no sample of an unknown participant is forwarded or recorded
HeldBack(detector, kind) ==
    \A sample \in Samples(sedp_cache'[detector]) :
        (/\ EndpointData(sample)
         /\ ParticipantHandle(sample.remote_guid_prefix)
                \notin DOMAIN discovered_participant_list')
            => /\ \A m \in sent' : m.kind = kind => m.data # sample
               /\ sample.key \notin DOMAIN discovered_topic_list'

\* the samples the detector held before the message that accepts their participant
Early(detector) ==
    {sample \in Samples(sedp_cache[detector]) :
        /\ EndpointData(sample)
        /\ ParticipantHandle(sample.remote_guid_prefix)
               \notin DOMAIN discovered_participant_list
        /\ ParticipantHandle(sample.remote_guid_prefix)
               \in DOMAIN discovered_participant_list'}

C36_early_endpoint_forwarded ==
    [][last_call'.op = "process_metatraffic_rtps_message" =>
         /\ HeldBack("DCPSPublication", "add_matched_writer")
         /\ HeldBack("DCPSSubscription", "add_matched_reader")
         /\ \A sample \in Early("DCPSPublication") :
                Forwarded(sample, "add_matched_writer",
                          DOMAIN user_defined_subscriber_list, sent')
         /\ \A sample \in Early("DCPSSubscription") :
                Forwarded(sample, "add_matched_reader",
                          DOMAIN user_defined_publisher_list, sent')]_vars

C36_early_endpoint_not_ignored_forwarded ==
    [][last_call'.op = "process_metatraffic_rtps_message" =>
         /\ HeldBack("DCPSPublication", "add_matched_writer")
         /\ HeldBack("DCPSSubscription", "add_matched_reader")
         /\ \A sample \in Early("DCPSPublication") :
                sample.key \notin ignored_publications
                    => Forwarded(sample, "add_matched_writer",
                                 DOMAIN user_defined_subscriber_list, sent')
         /\ \A sample \in Early("DCPSSubscription") :
                sample.key \notin ignored_subcriptions
                    => Forwarded(sample, "add_matched_reader",
                                 DOMAIN user_defined_publisher_list, sent')]_vars

\* the SPDP sample of p1 has been handled and the writer and the reader of p1 that
\* the detectors held went to a subscriber and a publisher with that message
C36_witness ==
    /\ last_call.op = "process_metatraffic_rtps_message"
    /\ last_call.msg.kind = "DCPSParticipant"
    /\ last_call.msg.guid_prefix = "p1"
    /\ ParticipantHandle("p1") \in DOMAIN discovered_participant_list
    /\ \E m \in sent : /\ m.kind = "add_matched_writer"
                       /\ m.data = DiscoveredWriterData("p1", "T1")
                       /\ m.to \in DOMAIN user_defined_subscriber_list
    /\ \E m \in sent : /\ m.kind = "add_matched_reader"
                       /\ m.data = DiscoveredReaderData("p1", "T2")
                       /\ m.to \in DOMAIN user_defined_publisher_list


(***************************************************************************)
(* C37: a disposed SEDP endpoint is unmatched everywhere.  After a         *)
(* metatraffic message, for every DCPSPublication sample in                *)
(* NotAliveDisposed a remove_matched_writer request with the sample's      *)
(* instance handle went to every user-defined subscriber (for every such   *)
(* DCPSSubscription sample a remove_matched_reader request to every        *)
(* user-defined publisher), and get_discovered_topics does not report the  *)
(* handle.                                                                 *)
(***************************************************************************)
Unmatched(detector, kind, targets) ==
    \A sample \in Samples(sedp_cache'[detector]) :
        sample.instance_state = "NotAliveDisposed"
            => /\ \A target \in targets :
                      \E m \in sent' :
                          m.kind = kind /\ m.to = target /\ m.handle = sample.key
               /\ sample.key \notin get_discovered_topics'

C37_disposed_endpoint_unmatched ==
    [][last_call'.op = "process_metatraffic_rtps_message" =>
         /\ Unmatched("DCPSPublication", "remove_matched_writer",
                      DOMAIN user_defined_subscriber_list)
         /\ Unmatched("DCPSSubscription", "remove_matched_reader",
                      DOMAIN user_defined_publisher_list)]_vars

(***************************************************************************)
(* C38: builtin discovery completes for every sample it reads: whatever    *)
(* the instance states of the samples of DCPSPublication, DCPSSubscription *)
(* and DCPSTopic, process_metatraffic_rtps_message returns and the         *)
(* participant actor goes on serving requests.                             *)
(***************************************************************************)
C38_discovery_completes ==
    [][last_call'.op = "process_metatraffic_rtps_message" =>
         /\ last_call'.ret = "Ok"
         /\ participant_alive']_vars

====
